---- MODULE Spec2Model ----
(***************************************************************************)
(* Model of the comic content retrieval layer of mumo-comics:              *)
(*   lib/schema  (ComicFrontmatterSchema, validateFrontmatter)             *)
(*   lib/mdx     (getMDXFiles, parseMDXFile, extractSlugFromFilename)      *)
(*   lib/comics  (getAllComics and the operations derived from it)         *)
(*                                                                         *)
(* Text that the code inspects character by character (file names, slugs,  *)
(* dates, tags, cover image paths) is a sequence of one-character strings. *)
(* Text that the code only builds (error messages) is a sequence of parts. *)
(***************************************************************************)
EXTENDS Integers, Sequences, FiniteSets, TLC

VARIABLES
  dirStatus,   \* content directory: "ok", "ENOENT" or "EACCES"
  entries,     \* directory entries: entry name -> [kind, perm, data]
  results,     \* cache(): call -> promise, for the calls of the current request
  calls,       \* number of operation calls made in the current request
  reads,       \* number of directory reads made in the current request
  writes,      \* number of writes made to the store
  vInput,      \* metadata map handed to validateFrontmatter
  vResult,     \* outcome of validateFrontmatter(vInput)
  request,     \* input of a page, of a route or of a function run on its own
  response,    \* what it returned, once it has run
  newComic,    \* admin NewComic form and its submit in progress; <<>> when not mounted
  supabase,    \* storage bucket and comics table; <<>> when not used
  dashboard,   \* AdminDashboard list and its deletes in progress; <<>> when not mounted
  upload       \* MultiImageUpload and its parent's panel list; <<>> when not mounted

vars ==
  <<dirStatus, entries, results, calls, reads, writes, vInput, vResult, request, response,
    newComic, supabase, dashboard, upload>>

-----------------------------------------------------------------------------
(* Characters and strings *)

Digits == <<"0", "1", "2", "3", "4", "5", "6", "7", "8", "9">>

Lower == <<"a", "b", "c", "d", "e", "f", "g", "h", "i", "j", "k", "l", "m",
           "n", "o", "p", "q", "r", "s", "t", "u", "v", "w", "x", "y", "z">>

Upper == <<"A", "B", "C", "D", "E", "F", "G", "H", "I", "J", "K", "L", "M",
           "N", "O", "P", "Q", "R", "S", "T", "U", "V", "W", "X", "Y", "Z">>

InSeq(seq, ch) == \E i \in 1..Len(seq) : seq[i] = ch

Pos(seq, ch) == CHOOSE i \in 1..Len(seq) : seq[i] = ch

IsDigit(ch) == InSeq(Digits, ch)

IsLower(ch) == InSeq(Lower, ch)

IsUpper(ch) == InSeq(Upper, ch)

\* UTF-16 code unit of a character
CharCode(ch) ==
  IF IsDigit(ch) THEN 47 + Pos(Digits, ch)
  ELSE IF IsUpper(ch) THEN 64 + Pos(Upper, ch)
  ELSE IF IsLower(ch) THEN 96 + Pos(Lower, ch)
  ELSE CASE ch = "+" -> 43
         [] ch = "," -> 44
         [] ch = "-" -> 45
         [] ch = "." -> 46
         [] ch = "/" -> 47
         [] ch = ":" -> 58

\* Primary collation weight used by String.prototype.localeCompare (root
\* collation): punctuation, then digits, then letters regardless of case.
PrimaryWeight(ch) ==
  IF IsDigit(ch) THEN 10 + Pos(Digits, ch)
  ELSE IF IsUpper(ch) THEN 30 + Pos(Upper, ch)
  ELSE IF IsLower(ch) THEN 30 + Pos(Lower, ch)
  ELSE CASE ch = "-" -> 1
         [] ch = ":" -> 2
         [] ch = "." -> 3
         [] ch = "/" -> 4
         [] ch = "+" -> 5

\* Tertiary collation weight: a lowercase letter sorts before its uppercase.
TertiaryWeight(ch) == IF IsUpper(ch) THEN 1 ELSE 0

Sign(n) == IF n < 0 THEN -1 ELSE IF n > 0 THEN 1 ELSE 0

MinOf(S) == CHOOSE m \in S : \A n \in S : m <= n

\* Lexicographic comparison of two strings by the weight W of each character
LexCompare(a, b, W(_)) ==
  LET n == IF Len(a) < Len(b) THEN Len(a) ELSE Len(b)
      diff == {i \in 1..n : W(a[i]) # W(b[i])}
  IN  IF diff = {} THEN Sign(Len(a) - Len(b))
      ELSE Sign(W(a[MinOf(diff)]) - W(b[MinOf(diff)]))

\* a < b, a = b, a > b of JavaScript strings (code unit order)
CodeUnitCompare(a, b) == LexCompare(a, b, CharCode)

LocaleCompare(a, b) ==
  LET p == LexCompare(a, b, PrimaryWeight)
  IN  IF p # 0 THEN p ELSE LexCompare(a, b, TertiaryWeight)

RECURSIVE Join(_)
\* the text of a character sequence, as one message part
Join(cs) == IF cs = <<>> THEN "" ELSE Head(cs) \o Join(Tail(cs))

StartsWith(s, prefix) ==
  /\ Len(s) >= Len(prefix)
  /\ SubSeq(s, 1, Len(prefix)) = prefix

EndsWith(s, suffix) ==
  /\ Len(s) >= Len(suffix)
  /\ SubSeq(s, Len(s) - Len(suffix) + 1, Len(s)) = suffix

\* a string of n characters
Text(n) == [i \in 1..n |-> "x"]

-----------------------------------------------------------------------------
(* Dates *)

\* the number written by the two digits of s at i and i + 1
Num2(s, i) == (Pos(Digits, s[i]) - 1) * 10 + (Pos(Digits, s[i + 1]) - 1)

\* z.string().datetime(): YYYY-MM-DDTHH:MM:SS, an optional fraction, then Z
\* (no UTC offset, no date without a time)
IsDatetime(s) ==
  /\ Len(s) >= 20
  /\ \A i \in {1, 2, 3, 4, 6, 7, 9, 10, 12, 13, 15, 16, 18, 19} : IsDigit(s[i])
  /\ s[5] = "-" /\ s[8] = "-" /\ s[11] = "T" /\ s[14] = ":" /\ s[17] = ":"
  /\ s[Len(s)] = "Z"
  /\ \/ Len(s) = 20
     \/ /\ Len(s) >= 22
        /\ s[20] = "."
        /\ \A i \in 21..(Len(s) - 1) : IsDigit(s[i])

\* days from 1970-01-01 to the civil date y-m-d
DaysFromCivil(y, m, d) ==
  LET yy == IF m <= 2 THEN y - 1 ELSE y
      era == yy \div 400
      yoe == yy - era * 400
      mp == IF m > 2 THEN m - 3 ELSE m + 9
      doy == (153 * mp + 2) \div 5 + d - 1
      doe == yoe * 365 + yoe \div 4 - yoe \div 100 + doy
  IN  era * 146097 + doe - 719468

\* the milliseconds of the fraction of s (its first three digits)
FractionMs(s) ==
  LET digit(i) == IF i < Len(s) /\ IsDigit(s[i]) THEN Pos(Digits, s[i]) - 1 ELSE 0
  IN  IF Len(s) = 20 THEN 0 ELSE digit(21) * 100 + digit(22) * 10 + digit(23)

\* new Date(s).getTime() of a datetime string: the instant, held as whole
\* seconds since the epoch and the milliseconds within the second
DateGetTime(s) ==
  [sec |-> ((DaysFromCivil(Num2(s, 1) * 100 + Num2(s, 3), Num2(s, 6), Num2(s, 9)) * 24
             + Num2(s, 12)) * 60 + Num2(s, 15)) * 60 + Num2(s, 18),
   ms  |-> FractionMs(s)]

\* the sign of the difference x - y of two instants
TimeDiff(x, y) ==
  IF x.sec # y.sec THEN Sign(x.sec - y.sec) ELSE Sign(x.ms - y.ms)

-----------------------------------------------------------------------------
(* lib/mdx: extractSlugFromFilename *)

MdxExt == <<".", "m", "d", "x">>

\* path.basename(p, ext): the part after the last "/", without a trailing ext
\* unless that would leave nothing; of a path that is ext itself, nothing
Basename(p, ext) ==
  LET slashes == {i \in 1..Len(p) : p[i] = "/"}
      start == IF slashes = {} THEN 1
               ELSE (CHOOSE i \in slashes : \A j \in slashes : j <= i) + 1
      base == SubSeq(p, start, Len(p))
  IN  IF p = ext THEN <<>>
      ELSE IF EndsWith(base, ext) /\ Len(base) > Len(ext)
      THEN SubSeq(base, 1, Len(base) - Len(ext))
      ELSE base

\* s matches /^\d{4}-\d{2}-/
HasDatePrefix(s) ==
  /\ Len(s) >= 8
  /\ \A i \in {1, 2, 3, 4, 6, 7} : IsDigit(s[i])
  /\ s[5] = "-" /\ s[8] = "-"

\* a slug that keeps the date of the file name
extractSlugKeepingDate(filename) == Basename(filename, MdxExt)

extractSlugFromFilename(filename) ==
  LET basename == Basename(filename, MdxExt)
  IN  IF HasDatePrefix(basename) THEN SubSeq(basename, 9, Len(basename))
      ELSE basename

-----------------------------------------------------------------------------
(* lib/schema: ComicFrontmatterSchema and validateFrontmatter *)

\* A metadata value: t is its JavaScript type. A number is held in tenths
\* (n = 25 is 2.5) so that a non-integer can be told from an integer.
StrV(s) == [t |-> "string", s |-> s, n |-> 0, b |-> FALSE, items |-> <<>>]

NumV(tenths) == [t |-> "number", s |-> <<>>, n |-> tenths, b |-> FALSE, items |-> <<>>]

BoolV(b) == [t |-> "boolean", s |-> <<>>, n |-> 0, b |-> b, items |-> <<>>]

ArrV(items) == [t |-> "array", s |-> <<>>, n |-> 0, b |-> FALSE, items |-> items]

NullV == [t |-> "null", s |-> <<>>, n |-> 0, b |-> FALSE, items |-> <<>>]

Has(data, f) == f \in DOMAIN data

Issue(path, message) == [path |-> path, message |-> message]

\* the issue of a value that is absent or of the wrong type
TypeIssue(data, f, type) ==
  IF ~Has(data, f) THEN <<Issue(<<f>>, "Required")>>
  ELSE <<Issue(<<f>>, "Expected " \o type \o ", received " \o data[f].t)>>

\* /^[a-z0-9]+(?:-[a-z0-9]+)*$/
SlugRegex(s) ==
  /\ Len(s) >= 1
  /\ \A i \in 1..Len(s) : IsLower(s[i]) \/ IsDigit(s[i]) \/ s[i] = "-"
  /\ s[1] # "-" /\ s[Len(s)] # "-"
  /\ \A i \in 1..(Len(s) - 1) : ~(s[i] = "-" /\ s[i + 1] = "-")

ComicsPrefix == <<"/", "c", "o", "m", "i", "c", "s", "/">>

Check(failed, path, message) == IF failed THEN <<Issue(path, message)>> ELSE <<>>

TitleIssues(data) ==
  IF ~Has(data, "title") \/ data["title"].t # "string"
  THEN TypeIssue(data, "title", "string")
  ELSE Check(Len(data["title"].s) < 1, <<"title">>, "Title is required")
       \o Check(Len(data["title"].s) > 100, <<"title">>,
                "Title must be 100 characters or less")

SlugIssues(data) ==
  IF ~Has(data, "slug") \/ data["slug"].t # "string"
  THEN TypeIssue(data, "slug", "string")
  ELSE Check(Len(data["slug"].s) < 1, <<"slug">>, "Slug is required")
       \o Check(~SlugRegex(data["slug"].s), <<"slug">>,
                "Slug must be lowercase alphanumeric with hyphens only")

PublishDateIssues(data) ==
  IF ~Has(data, "publishDate") \/ data["publishDate"].t # "string"
  THEN TypeIssue(data, "publishDate", "string")
  ELSE Check(~IsDatetime(data["publishDate"].s), <<"publishDate">>,
             "Publish date must be a valid ISO 8601 datetime")

SynopsisIssues(data) ==
  IF ~Has(data, "synopsis") \/ data["synopsis"].t # "string"
  THEN TypeIssue(data, "synopsis", "string")
  ELSE Check(Len(data["synopsis"].s) < 10, <<"synopsis">>,
             "Synopsis must be at least 10 characters")
       \o Check(Len(data["synopsis"].s) > 300, <<"synopsis">>,
                "Synopsis must be 300 characters or less")

\* the issues of the tag at (zero-based) index i - 1
TagIssues(tag, i) ==
  LET path == <<"tags", Digits[i]>>
  IN  IF tag.t # "string"
      THEN <<Issue(path, "Expected string, received " \o tag.t)>>
      ELSE Check(Len(tag.s) < 2, path, "Each tag must be at least 2 characters")
           \o Check(Len(tag.s) > 20, path, "Each tag must be 20 characters or less")

RECURSIVE EachTagIssues(_, _)
EachTagIssues(items, i) ==
  IF i > Len(items) THEN <<>>
  ELSE TagIssues(items[i], i) \o EachTagIssues(items, i + 1)

TagsIssues(data) ==
  IF ~Has(data, "tags") \/ data["tags"].t # "array"
  THEN TypeIssue(data, "tags", "array")
  ELSE Check(Len(data["tags"].items) < 1, <<"tags">>, "At least one tag is required")
       \o Check(Len(data["tags"].items) > 5, <<"tags">>, "Maximum of 5 tags allowed")
       \o EachTagIssues(data["tags"].items, 1)

ReadingTimeIssues(data) ==
  IF ~Has(data, "readingTime") \/ data["readingTime"].t # "number"
  THEN TypeIssue(data, "readingTime", "number")
  ELSE Check(data["readingTime"].n % 10 # 0, <<"readingTime">>,
             "Reading time must be an integer")
       \o Check(data["readingTime"].n <= 0, <<"readingTime">>,
                "Reading time must be a positive number")

CoverImageIssues(data) ==
  IF ~Has(data, "coverImage") \/ data["coverImage"].t # "string"
  THEN TypeIssue(data, "coverImage", "string")
  ELSE Check(Len(data["coverImage"].s) < 1, <<"coverImage">>, "Cover image is required")
       \o Check(~StartsWith(data["coverImage"].s, ComicsPrefix), <<"coverImage">>,
                "Cover image path must start with /comics/")

AuthorIssues(data) ==
  IF ~Has(data, "author") THEN <<>>
  ELSE IF data["author"].t # "string" THEN TypeIssue(data, "author", "string")
  ELSE Check(Len(data["author"].s) < 1, <<"author">>,
             "Author name must be at least 1 character")
       \o Check(Len(data["author"].s) > 50, <<"author">>,
                "Author name must be 50 characters or less")

FeaturedIssues(data) ==
  IF ~Has(data, "featured") THEN <<>>
  ELSE IF data["featured"].t # "boolean" THEN TypeIssue(data, "featured", "boolean")
  ELSE <<>>

\* the issues ComicFrontmatterSchema.parse(data) collects, field by field
SchemaIssues(data) ==
  TitleIssues(data) \o SlugIssues(data) \o PublishDateIssues(data)
    \o SynopsisIssues(data) \o TagsIssues(data) \o ReadingTimeIssues(data)
    \o CoverImageIssues(data) \o AuthorIssues(data) \o FeaturedIssues(data)

\* validateFrontmatter: the validated data, or a ZodError carrying the issues
validateFrontmatter(data) ==
  LET issues == SchemaIssues(data)
  IN  IF issues = <<>> THEN [ok |-> TRUE, data |-> data, errors |-> <<>>]
      ELSE [ok |-> FALSE, data |-> data, errors |-> issues]

\* path.join('.') of an issue's path
PathText(path) == IF Len(path) = 1 THEN path[1] ELSE path[1] \o "." \o path[2]

RECURSIVE IssueParts(_)
\* errors.map(err => `${err.path.join('.')}: ${err.message}`).join(', ')
IssueParts(errors) ==
  IF errors = <<>> THEN <<>>
  ELSE <<PathText(Head(errors).path), ": ", Head(errors).message>>
       \o (IF Len(errors) > 1 THEN <<", ">> ELSE <<>>)
       \o IssueParts(Tail(errors))

\* the message parseMDXFile gives a ZodError raised for filePath
FrontmatterMessage(filePath, errors) ==
  <<"Invalid frontmatter in ", Join(filePath), ": ">> \o IssueParts(errors)

-----------------------------------------------------------------------------
(* The content store: the directory content/comics and its entries *)

COMICS_DIRECTORY ==
  <<"/", "c", "o", "n", "t", "e", "n", "t", "/", "c", "o", "m", "i", "c", "s">>

TagFun == <<"f", "u", "n">>

\* the tag fun in another case
TagUpperFun == <<"F", "u", "n">>

TagCats == <<"c", "a", "t", "s">>

TagNone == <<"z", "z">>

Date0101 ==
  <<"2", "0", "2", "4", "-", "0", "1", "-", "0", "1", "T",
    "0", "0", ":", "0", "0", ":", "0", "0", "Z">>

Date0301 ==
  <<"2", "0", "2", "4", "-", "0", "3", "-", "0", "1", "T",
    "0", "0", ":", "0", "0", ":", "0", "0", "Z">>

\* the same instant as Date0301, written with milliseconds
Date0301Ms ==
  <<"2", "0", "2", "4", "-", "0", "3", "-", "0", "1", "T",
    "0", "0", ":", "0", "0", ":", "0", "0", ".", "0", "0", "0", "Z">>

\* a metadata block that satisfies the schema
Frontmatter(slug, publishDate, tags) ==
  ("title" :> StrV(Text(5)))
    @@ ("slug" :> StrV(slug))
    @@ ("publishDate" :> StrV(publishDate))
    @@ ("synopsis" :> StrV(Text(12)))
    @@ ("tags" :> ArrV([i \in 1..Len(tags) |-> StrV(tags[i])]))
    @@ ("readingTime" :> NumV(50))
    @@ ("coverImage" :> StrV(ComicsPrefix \o <<"c">>))

\* data without the keys in gone
Without(data, gone) == [f \in (DOMAIN data) \ gone |-> data[f]]

\* data with key f set to v
With(data, f, v) == [g \in (DOMAIN data) \cup {f} |-> IF g = f THEN v ELSE data[g]]

NameC == <<"2", "0", "2", "4", "-", "0", "3", "-", "c", ".", "m", "d", "x">>

NameA == <<"a", ".", "m", "d", "x">>

NameB == <<"2", "0", "2", "4", "-", "0", "3", "-", "b", ".", "m", "d", "x">>

NameA2 == <<"2", "0", "2", "4", "-", "0", "2", "-", "a", ".", "m", "d", "x">>

NameUpperB == <<"B", ".", "m", "d", "x">>

NameNotes == <<"n", "o", "t", "e", "s", ".", "m", "d">>

NameOld == <<"o", "l", "d", ".", "m", "d", "x">>

\* A directory entry. kind: what isFile() tells; read: "ok", or the failure
\* of reading and parsing the file ("EACCES", "YAMLException").
Entry(name, kind, read, data) ==
  [name |-> name, kind |-> kind, read |-> read, data |-> data]

FileC == Entry(NameC, "file", "ok", Frontmatter(<<"c">>, Date0301, <<TagFun>>))

FileA == Entry(NameA, "file", "ok", Frontmatter(<<"a">>, Date0101, <<TagFun, TagCats>>))

FileB == Entry(NameB, "file", "ok", Frontmatter(<<"b">>, Date0301Ms, <<TagCats>>))

\* a second file whose name gives the slug a, with the date of FileA
FileA2 == Entry(NameA2, "file", "ok", Frontmatter(<<"a", "-", "2">>, Date0101, <<TagCats>>))

\* a file whose name gives a slug that is not lowercase
FileUpperB == Entry(NameUpperB, "file", "ok", Frontmatter(<<"b", "b">>, Date0301, <<TagUpperFun>>))

\* a.mdx with no title and an empty tag list
FileABad ==
  Entry(NameA, "file", "ok",
        With(Without(Frontmatter(<<"a">>, Date0101, <<>>), {"title"}), "tags", ArrV(<<>>)))

\* c.mdx without read permission
FileCLocked == Entry(NameC, "file", "EACCES", Frontmatter(<<"c">>, Date0301, <<TagFun>>))

\* b.mdx whose metadata block is not YAML
FileBGarbled == Entry(NameB, "file", "YAMLException", Frontmatter(<<"b">>, Date0301Ms, <<TagCats>>))

FileNotes == Entry(NameNotes, "file", "ok", Frontmatter(<<"n">>, Date0101, <<TagFun>>))

DirOld == Entry(NameOld, "dir", "ok", Frontmatter(<<"o">>, Date0101, <<TagFun>>))

\* every entry the content directory can hold
Catalog ==
  {FileC, FileA, FileB, FileA2, FileUpperB, FileABad, FileCLocked, FileBGarbled,
   FileNotes, DirOld}

\* the entries that are written while requests are served
Written == {FileB, FileABad, FileCLocked}

\* the directory holding the entries of the set es
Dir(es) == [n \in {e.name : e \in es} |-> CHOOSE e \in es : e.name = n]

InitialStores ==
  {Dir({}), Dir({FileC, FileA, FileB}), Dir({FileC}), Dir({FileA2, FileA}),
   Dir({FileUpperB, FileB, FileNotes}), Dir({FileC, DirOld, FileABad}),
   Dir({FileC, FileBGarbled})}

-----------------------------------------------------------------------------
(* Promises *)

Pending(files) == [state |-> "pending", files |-> files]

Fulfilled(value) == [state |-> "fulfilled", value |-> value]

\* a promise rejected with new Error(message)
Rejected(message) == [state |-> "rejected", message |-> message]

Settled(p) == p.state # "pending"

\* the message of a caught error: error instanceof Error ? error.message : ...
MessageOf(p) == p.message

-----------------------------------------------------------------------------
(* lib/mdx: getMDXFiles and parseMDXFile *)

PathJoin(dir, name) == dir \o <<"/">> \o name

RECURSIVE Orderings(_)
\* the sequences that list every element of S once
Orderings(S) ==
  IF S = {} THEN {<<>>}
  ELSE UNION {{<<x>> \o q : q \in Orderings(S \ {x})} : x \in S}

\* getMDXFiles(directoryPath): the possible outcomes of one call, one for each
\* order in which readdir may list the entries
getMDXFiles(status, dir, directoryPath) ==
  IF status = "ENOENT"
  THEN {Rejected(<<"Directory not found: ", Join(directoryPath)>>)}
  ELSE IF status = "EACCES"
  THEN {Rejected(<<"Error reading directory ", Join(directoryPath), ": ",
                   "EACCES: permission denied, scandir ", Join(directoryPath)>>)}
  ELSE LET mdx == {n \in DOMAIN dir : dir[n].kind = "file" /\ EndsWith(n, MdxExt)}
       IN  {Fulfilled([i \in 1..Len(q) |-> PathJoin(directoryPath, q[i])]) :
              q \in Orderings(mdx)}

\* the entry name of a path below COMICS_DIRECTORY
EntryName(filePath) == SubSeq(filePath, Len(COMICS_DIRECTORY) + 2, Len(filePath))

\* error.message.includes('Invalid frontmatter')
IncludesInvalidFrontmatter(message) ==
  \E i \in 1..Len(message) : message[i] = "Invalid frontmatter in "

\* a catch block that names no cause
ParseCatchUnnamed(filePath, code, message) ==
  IF IncludesInvalidFrontmatter(message) THEN Rejected(message)
  ELSE Rejected(<<"Error parsing MDX file ", Join(filePath), ": ">> \o message)

\* the catch block of parseMDXFile, for an error with the given code and message
ParseCatch(filePath, code, message) ==
  IF IncludesInvalidFrontmatter(message) THEN Rejected(message)
  ELSE IF code = "ENOENT" THEN Rejected(<<"Comic file not found: ", Join(filePath)>>)
  ELSE IF code = "EACCES"
  THEN Rejected(<<"Permission denied reading file: ", Join(filePath)>>)
  ELSE Rejected(<<"Error parsing MDX file ", Join(filePath), ": ">> \o message)

\* parseMDXFile(filePath) against the directory dir
parseMDXFile(dir, filePath) ==
  LET name == EntryName(filePath)
  IN  IF name \notin DOMAIN dir
      THEN ParseCatch(filePath, "ENOENT", <<"ENOENT: no such file or directory">>)
      ELSE IF dir[name].kind = "dir"
      THEN ParseCatch(filePath, "EISDIR", <<"EISDIR: illegal operation on a directory">>)
      ELSE IF dir[name].read = "EACCES"
      THEN ParseCatch(filePath, "EACCES", <<"EACCES: permission denied">>)
      ELSE IF dir[name].read = "YAMLException"
      THEN ParseCatch(filePath, "", <<"YAMLException">>)
      ELSE LET v == validateFrontmatter(dir[name].data)
           IN  IF v.ok THEN Fulfilled([frontmatter |-> v.data])
               ELSE ParseCatch(filePath, "", FrontmatterMessage(filePath, v.errors))

-----------------------------------------------------------------------------
(* lib/comics *)

PublishDate(c) == c.frontmatter["publishDate"].s

\* the tags of a comic, as a sequence of strings
Tags(c) == [i \in 1..Len(c.frontmatter["tags"].items) |-> c.frontmatter["tags"].items[i].s]

\* a comparator with the order of dates reversed
CompareOldestFirst(a, b) ==
  LET dateA == DateGetTime(PublishDate(a))
      dateB == DateGetTime(PublishDate(b))
  IN  IF dateA # dateB THEN TimeDiff(dateA, dateB)
      ELSE LocaleCompare(a.slug, b.slug)

compareByDateAndSlug(a, b) ==
  LET dateA == DateGetTime(PublishDate(a))
      dateB == DateGetTime(PublishDate(b))
  IN  IF dateA # dateB THEN TimeDiff(dateB, dateA)
      ELSE LocaleCompare(a.slug, b.slug)

\* x put into the sorted sequence, after the elements that do not sort after it
Insert(sorted, x) ==
  LET after == {i \in 1..Len(sorted) : compareByDateAndSlug(sorted[i], x) > 0}
      k == IF after = {} THEN Len(sorted) + 1 ELSE MinOf(after)
  IN  SubSeq(sorted, 1, k - 1) \o <<x>> \o SubSeq(sorted, k, Len(sorted))

RECURSIVE SortFirst(_, _)
\* the first n elements of comics, sorted (Array.prototype.sort is stable)
SortFirst(comics, n) ==
  IF n = 0 THEN <<>> ELSE Insert(SortFirst(comics, n - 1), comics[n])

\* the records as they come, in the order of the listing
KeepOrder(comics) == comics

SortComics(comics) == SortFirst(comics, Len(comics))

\* a read that leaves out the files that cannot be parsed
ParseAndSortSkipping(dir, files) ==
  LET parsed == [i \in 1..Len(files) |-> parseMDXFile(dir, files[i])]
      good == {i \in 1..Len(files) : parsed[i].state = "fulfilled"}
      nth(k) == CHOOSE i \in good : Cardinality({j \in good : j <= i}) = k
      comics == [k \in 1..Cardinality(good) |->
                   [frontmatter |-> parsed[nth(k)].value.frontmatter,
                    slug |-> extractSlugFromFilename(files[nth(k)])]]
  IN  {Fulfilled(SortComics(comics))}

\* getAllComics from the await of Promise.all on: every listed file is parsed
\* against the directory dir; the possible outcomes (Promise.all rejects with
\* the rejection that comes first, whichever file that is). The content of a
\* record, which no operation reads, is left out.
ParseAndSort(dir, files) ==
  LET parsed == [i \in 1..Len(files) |-> parseMDXFile(dir, files[i])]
      failed == {i \in 1..Len(files) : parsed[i].state = "rejected"}
      comics == [i \in 1..Len(files) |->
                   [frontmatter |-> parsed[i].value.frontmatter,
                    slug |-> extractSlugFromFilename(files[i])]]
  IN  IF failed = {} THEN {Fulfilled(SortComics(comics))}
      ELSE {Rejected(<<"Failed to retrieve comics: ">> \o MessageOf(parsed[i])) :
              i \in failed}

\* getAllComics up to the await of Promise.all: the possible outcomes
ListFiles(status, dir) ==
  {IF listed.state = "rejected"
   THEN Rejected(<<"Failed to retrieve comics: ">> \o MessageOf(listed))
   ELSE Pending(listed.value) : listed \in getMDXFiles(status, dir, COMICS_DIRECTORY)}

NoComics == <<"No comics available">>

\* a search that returns the last comic of the slug
FindLast(comics, slug) ==
  LET found == {i \in 1..Len(comics) : comics[i].slug = slug}
  IN  IF found = {} THEN <<>>
      ELSE <<comics[CHOOSE i \in found : \A j \in found : j <= i]>>

\* comics.find(...) || null, as a sequence of at most one comic
Find(comics, slug) ==
  LET found == {i \in 1..Len(comics) : comics[i].slug = slug}
  IN  IF found = {} THEN <<>> ELSE <<comics[MinOf(found)]>>

\* comics.findIndex(...), zero-based
FindIndex(comics, slug) ==
  LET found == {i \in 1..Len(comics) : comics[i].slug = slug}
  IN  IF found = {} THEN -1 ELSE MinOf(found) - 1

\* the comic at zero-based index i
At(comics, i) == comics[i + 1]

LowerCase(str) == [i \in 1..Len(str) |-> IF IsUpper(str[i]) THEN Lower[Pos(Upper, str[i])] ELSE str[i]]

\* a filter that takes Fun for fun
FilterIgnoringCase(comics, tag) ==
  LET keep == {i \in 1..Len(comics) :
                 \E j \in 1..Len(Tags(comics[i])) :
                   LowerCase(Tags(comics[i])[j]) = LowerCase(tag)}
      nth(k) == CHOOSE i \in keep : Cardinality({j \in keep : j <= i}) = k
  IN  [k \in 1..Cardinality(keep) |-> comics[nth(k)]]

RECURSIVE Filter(_, _)
\* comics.filter(comic => comic.frontmatter.tags.includes(tag))
Filter(comics, tag) ==
  IF comics = <<>> THEN <<>>
  ELSE (IF InSeq(Tags(Head(comics)), tag) THEN <<Head(comics)>> ELSE <<>>)
       \o Filter(Tail(comics), tag)

RECURSIVE SortStringsDescending(_)
\* the strings of S from the greatest to the least
SortStringsDescending(S) ==
  IF S = {} THEN <<>>
  ELSE LET greatest == CHOOSE x \in S : \A y \in S : CodeUnitCompare(x, y) >= 0
       IN  <<greatest>> \o SortStringsDescending(S \ {greatest})

RECURSIVE SortStrings(_)
\* Array.from(set).sort(): the strings of S in code unit order
SortStrings(S) ==
  IF S = {} THEN <<>>
  ELSE LET least == CHOOSE x \in S : \A y \in S : CodeUnitCompare(x, y) <= 0
       IN  <<least>> \o SortStrings(S \ {least})

\* Each operation below is given the settled promise all of its call
\* getAllComics() and yields its own settled promise.

\* getComicBySlug answering "not found" when the retrieval failed
getComicBySlugOrNull(all, slug) ==
  IF all.state = "rejected" THEN Fulfilled(<<>>)
  ELSE Fulfilled(Find(all.value, slug))

getComicBySlug(all, slug) ==
  IF all.state = "rejected"
  THEN Rejected(<<"Failed to retrieve comic by slug \"", Join(slug), "\": ">> \o MessageOf(all))
  ELSE Fulfilled(Find(all.value, slug))

\* getLatestComic taking the other end of the list
getLatestComicLast(all) ==
  IF all.state = "rejected"
  THEN Rejected(<<"Failed to retrieve latest comic: ">> \o MessageOf(all))
  ELSE IF Len(all.value) = 0 THEN Rejected(NoComics)
  ELSE Fulfilled(At(all.value, Len(all.value) - 1))

getLatestComic(all) ==
  IF all.state = "rejected"
  THEN IF MessageOf(all) = NoComics THEN Rejected(MessageOf(all))
       ELSE Rejected(<<"Failed to retrieve latest comic: ">> \o MessageOf(all))
  ELSE IF Len(all.value) = 0 THEN Rejected(NoComics)
  ELSE Fulfilled(At(all.value, 0))

\* getComicsByTag failing when there is no comic at all
getComicsByTagOrFail(all, tag) ==
  IF all.state = "rejected"
  THEN Rejected(<<"Failed to retrieve comics by tag \"", Join(tag), "\": ">> \o MessageOf(all))
  ELSE IF Len(all.value) = 0 THEN Rejected(NoComics)
  ELSE Fulfilled(Filter(all.value, tag))

getComicsByTag(all, tag) ==
  IF all.state = "rejected"
  THEN Rejected(<<"Failed to retrieve comics by tag \"", Join(tag), "\": ">> \o MessageOf(all))
  ELSE Fulfilled(Filter(all.value, tag))

\* getAllTags letting the error of getAllComics through as it is
getAllTagsUnwrapped(all) ==
  IF all.state = "rejected" THEN Rejected(MessageOf(all))
  ELSE Fulfilled(SortStrings(UNION {{Tags(all.value[i])[j] : j \in 1..Len(Tags(all.value[i]))} :
                                      i \in 1..Len(all.value)}))

getAllTags(all) ==
  IF all.state = "rejected"
  THEN Rejected(<<"Failed to retrieve all tags: ">> \o MessageOf(all))
  ELSE Fulfilled(SortStrings(UNION {{Tags(all.value[i])[j] : j \in 1..Len(Tags(all.value[i]))} :
                                      i \in 1..Len(all.value)}))

\* getRandomComic answering "no comic" on an empty collection
getRandomComicOrAbsent(all, randomIndex) ==
  IF all.state = "rejected"
  THEN Rejected(<<"Failed to retrieve random comic: ">> \o MessageOf(all))
  ELSE IF Len(all.value) = 0 THEN Fulfilled(<<>>)
  ELSE Fulfilled(At(all.value, randomIndex))

\* randomIndex is Math.floor(Math.random() * comics.length)
getRandomComic(all, randomIndex) ==
  IF all.state = "rejected"
  THEN IF MessageOf(all) = NoComics THEN Rejected(MessageOf(all))
       ELSE Rejected(<<"Failed to retrieve random comic: ">> \o MessageOf(all))
  ELSE IF Len(all.value) = 0 THEN Rejected(NoComics)
  ELSE Fulfilled(At(all.value, randomIndex))

\* getAdjacentComics with previous and next exchanged
getAdjacentComicsSwapped(all, slug) ==
  IF all.state = "rejected"
  THEN Rejected(<<"Failed to retrieve adjacent comics for \"", Join(slug), "\": ">>
                \o MessageOf(all))
  ELSE LET comics == all.value
           currentIndex == FindIndex(comics, slug)
       IN  IF currentIndex = -1 THEN Fulfilled([previous |-> <<>>, next |-> <<>>])
           ELSE Fulfilled(
                  [previous |-> IF currentIndex > 0
                                THEN <<At(comics, currentIndex - 1)>> ELSE <<>>,
                   next |-> IF currentIndex < Len(comics) - 1
                            THEN <<At(comics, currentIndex + 1)>> ELSE <<>>])

getAdjacentComics(all, slug) ==
  IF all.state = "rejected"
  THEN Rejected(<<"Failed to retrieve adjacent comics for \"", Join(slug), "\": ">>
                \o MessageOf(all))
  ELSE LET comics == all.value
           currentIndex == FindIndex(comics, slug)
       IN  IF currentIndex = -1 THEN Fulfilled([previous |-> <<>>, next |-> <<>>])
           ELSE Fulfilled(
                  [previous |-> IF currentIndex < Len(comics) - 1
                                THEN <<At(comics, currentIndex + 1)>> ELSE <<>>,
                   next |-> IF currentIndex > 0
                            THEN <<At(comics, currentIndex - 1)>> ELSE <<>>])

-----------------------------------------------------------------------------
(* Calls of one request, memoised by cache() *)

Call(op, arg) == [op |-> op, arg |-> arg]

AllKey == Call("getAllComics", <<>>)

SlugArgs == {<<"c">>, <<"a">>, <<"z">>}

TagArgs == {TagFun, TagNone}

Keys ==
  {AllKey, Call("getLatestComic", <<>>), Call("getAllTags", <<>>),
   Call("getRandomComic", <<>>)}
    \cup {Call("getComicBySlug", s) : s \in SlugArgs}
    \cup {Call("getAdjacentComics", s) : s \in SlugArgs}
    \cup {Call("getComicsByTag", t) : t \in TagArgs}

\* the promise of the call key, once its getAllComics() has settled as all
Derive(key, all, randomIndex) ==
  CASE key.op = "getAllComics" -> all
    [] key.op = "getComicBySlug" -> getComicBySlug(all, key.arg)
    [] key.op = "getLatestComic" -> getLatestComic(all)
    [] key.op = "getComicsByTag" -> getComicsByTag(all, key.arg)
    [] key.op = "getAllTags" -> getAllTags(all)
    [] key.op = "getRandomComic" -> getRandomComic(all, randomIndex)
    [] key.op = "getAdjacentComics" -> getAdjacentComics(all, key.arg)

\* the values Math.floor(Math.random() * length) can take
RandomIndices(all) ==
  IF all.state = "fulfilled" /\ Len(all.value) > 0 THEN 0..(Len(all.value) - 1) ELSE {0}

\* a cache that never holds anything
LookupNothing(memo, key) == <<>>

\* cache(fn): the promise memoised for the call key in this request, if any
Lookup(memo, key) == IF key \in DOMAIN memo THEN <<memo[key]>> ELSE <<>>

\* memo with the promise of key set to p
Store(memo, key, p) == [k \in (DOMAIN memo) \cup {key} |-> IF k = key THEN p ELSE memo[k]]

-----------------------------------------------------------------------------
(* The state machine *)

MaxCalls == 2

MaxWrites == 1

NoCalls == [k \in {} |-> Pending(<<>>)]

\* what the file system shows of the directory: nothing of a directory that
\* is gone, and no readable file in a directory that cannot be searched
Visible(status, dir) ==
  IF status = "ENOENT" THEN [n \in {} |-> FileC]
  ELSE IF status = "EACCES" THEN [n \in DOMAIN dir |-> [dir[n] EXCEPT !.read = "EACCES"]]
  ELSE dir

ValidMetadata == Frontmatter(<<"a">>, Date0101, <<TagFun>>)

Init ==
  /\ dirStatus = "ok"
  /\ entries \in InitialStores
  /\ results = NoCalls
  /\ calls = 0
  /\ reads = 0
  /\ writes = 0
  /\ vInput = ValidMetadata
  /\ vResult = <<>>
  /\ request = <<>>
  /\ response = <<>>
  /\ newComic = <<>>
  /\ supabase = <<>>
  /\ dashboard = <<>>
  /\ upload = <<>>

\* A component of the request calls the operation key. A call that the cache
\* holds returns the memoised promise. Any other call runs the operation up
\* to its first await: getAllComics() lists the directory; every other
\* operation calls getAllComics() and awaits it.
Invoke(key) ==
  /\ calls < MaxCalls
  /\ calls' = calls + 1
  /\ UNCHANGED <<dirStatus, entries, writes, vInput, vResult, request, response,
                 newComic, supabase, dashboard, upload>>
  /\ IF Lookup(results, key) # <<>>
     THEN UNCHANGED <<results, reads>>
     ELSE IF key # AllKey /\ Lookup(results, AllKey) # <<>>
     THEN LET all == Lookup(results, AllKey)[1]
          IN  /\ UNCHANGED reads
              /\ IF Settled(all)
                 THEN \E r \in RandomIndices(all) :
                        results' = Store(results, key, Derive(key, all, r))
                 ELSE results' = Store(results, key, Pending(<<>>))
     ELSE \E all \in ListFiles(dirStatus, entries) :
            /\ reads' = reads + 1
            /\ results' = Store(Store(results, AllKey, all), key,
                                IF Settled(all) THEN Derive(key, all, 0)
                                ELSE IF key = AllKey THEN all ELSE Pending(<<>>))

\* The file reads of the pending getAllComics() complete: its promise settles
\* and so does every call that awaits it.
Settle ==
  /\ AllKey \in DOMAIN results
  /\ ~Settled(results[AllKey])
  /\ \E all \in ParseAndSort(Visible(dirStatus, entries), results[AllKey].files) :
       \E r \in RandomIndices(all) :
         results' = [k \in DOMAIN results |->
                       IF Settled(results[k]) THEN results[k] ELSE Derive(k, all, r)]
  /\ UNCHANGED <<dirStatus, entries, calls, reads, writes, vInput, vResult, request, response,
                 newComic, supabase, dashboard, upload>>

\* The request ends; the next one starts with an empty cache.
NewRequest ==
  /\ calls > 0
  /\ results' = NoCalls
  /\ calls' = 0
  /\ reads' = 0
  /\ UNCHANGED <<dirStatus, entries, writes, vInput, vResult, request, response,
                 newComic, supabase, dashboard, upload>>

\* Another process writes a file or directory into the content directory.
PutEntry(e) ==
  /\ writes < MaxWrites
  /\ dirStatus = "ok"
  /\ Lookup(entries, e.name) # <<e>>
  /\ entries' = Store(entries, e.name, e)
  /\ writes' = writes + 1
  /\ UNCHANGED <<dirStatus, results, calls, reads, vInput, vResult, request, response,
                 newComic, supabase, dashboard, upload>>

\* Another process deletes an entry of the content directory.
RemoveEntry(name) ==
  /\ writes < MaxWrites
  /\ dirStatus = "ok"
  /\ name \in DOMAIN entries
  /\ entries' = [n \in (DOMAIN entries) \ {name} |-> entries[n]]
  /\ writes' = writes + 1
  /\ UNCHANGED <<dirStatus, results, calls, reads, vInput, vResult, request, response,
                 newComic, supabase, dashboard, upload>>

\* Another process removes, recreates, protects or unprotects the directory.
SetDirectory(status) ==
  /\ writes < MaxWrites
  /\ status # dirStatus
  /\ dirStatus' = status
  /\ entries' = IF "ENOENT" \in {status, dirStatus} THEN Dir({}) ELSE entries
  /\ writes' = writes + 1
  /\ UNCHANGED <<results, calls, reads, vInput, vResult, request, response,
                 newComic, supabase, dashboard, upload>>

Next ==
  \/ \E key \in Keys : Invoke(key)
  \/ Settle
  \/ NewRequest
  \/ \E e \in Written : PutEntry(e)
  \/ \E name \in {e.name : e \in Catalog} : RemoveEntry(name)
  \/ \E status \in {"ok", "ENOENT", "EACCES"} : SetDirectory(status)

Spec == Init /\ [][Next]_vars

-----------------------------------------------------------------------------
(* validateFrontmatter on its own: one metadata map, validated once *)

\* the number of fields of a valid metadata map that an input changes
MaxChanged == 2

DateOnly == SubSeq(Date0301, 1, 10)

\* 2024-03-01T00:00:00+01:00
DateOffset == SubSeq(Date0301, 1, 19) \o <<"+", "0", "1", ":", "0", "0">>

Repeat(v, n) == [i \in 1..n |-> v]

\* a key that is absent from the map
Absent == [t |-> "undefined", s |-> <<>>, n |-> 0, b |-> FALSE, items |-> <<>>]

\* the values tried for each field
Alternatives ==
  [title |-> {Absent, NumV(50), StrV(<<>>), StrV(Text(1)), StrV(Text(100)), StrV(Text(101))},
   slug |-> {Absent, NumV(10), StrV(<<>>), StrV(<<"A">>), StrV(<<"a", "-">>),
             StrV(<<"a", "-", "-", "b">>), StrV(<<"a", "-", "2">>)},
   publishDate |-> {Absent, NumV(10), StrV(DateOnly), StrV(DateOffset), StrV(Date0301Ms)},
   synopsis |-> {Absent, StrV(Text(9)), StrV(Text(10)), StrV(Text(300)), StrV(Text(301))},
   tags |-> {Absent, StrV(TagFun), ArrV(<<>>), ArrV(Repeat(StrV(TagFun), 5)),
             ArrV(Repeat(StrV(TagFun), 6)), ArrV(<<StrV(Text(1))>>),
             ArrV(<<StrV(Text(20))>>), ArrV(<<StrV(TagFun), StrV(Text(21))>>),
             ArrV(<<StrV(TagFun), NumV(10)>>)},
   readingTime |-> {Absent, StrV(<<"5">>), NumV(0), NumV(-10), NumV(25), NumV(10)},
   coverImage |-> {Absent, NumV(10), StrV(<<>>), StrV(<<"/", "i", "m", "g">>),
                   StrV(ComicsPrefix)},
   author |-> {Absent, NullV, NumV(10), StrV(<<>>), StrV(Text(1)), StrV(Text(50)),
               StrV(Text(51))},
   featured |-> {Absent, StrV(<<"y", "e", "s">>), BoolV(TRUE), BoolV(FALSE)}]

Fields == DOMAIN Alternatives

\* data with the field f set to v, or removed when v is Absent
Changed(data, f, v) == IF v = Absent THEN Without(data, {f}) ELSE With(data, f, v)

RECURSIVE ChangedIn(_, _, _)
\* the maps got from data by changing the fields of the set fs
ChangedIn(data, fs, n) ==
  IF fs = {} \/ n = 0 THEN {data}
  ELSE LET f == CHOOSE g \in fs : TRUE
       IN  UNION {ChangedIn(Changed(data, f, v), fs \ {f}, n - 1) : v \in Alternatives[f]}

\* the maps got from a valid one by changing at most n fields
MetadataInputs(n) ==
  UNION {ChangedIn(ValidMetadata, fs, n) :
           fs \in {gs \in SUBSET Fields : Cardinality(gs) <= n}}

InitValidate ==
  /\ dirStatus = "ok"
  /\ entries = Dir({})
  /\ results = NoCalls
  /\ calls = 0
  /\ reads = 0
  /\ writes = 0
  /\ vInput \in MetadataInputs(MaxChanged)
  /\ vResult = <<>>
  /\ request = <<>>
  /\ response = <<>>
  /\ newComic = <<>>
  /\ supabase = <<>>
  /\ dashboard = <<>>
  /\ upload = <<>>

\* parseMDXFile validates the metadata of a.mdx: the data, or the message of
\* the error it throws
Validate ==
  /\ vResult = <<>>
  /\ LET v == validateFrontmatter(vInput)
     IN  vResult' = <<[ok |-> v.ok,
                       message |-> IF v.ok THEN <<>>
                                   ELSE FrontmatterMessage(PathJoin(COMICS_DIRECTORY, NameA),
                                                           v.errors)]>>
  /\ UNCHANGED <<dirStatus, entries, results, calls, reads, writes, vInput, request, response,
                 newComic, supabase, dashboard, upload>>

NextValidate == Validate

SpecValidate == InitValidate /\ [][NextValidate]_vars

-----------------------------------------------------------------------------
(* Properties of lib/comics, checked under Spec *)

Called(key) == key \in DOMAIN results

\* getAllComics() of the current request has returned a collection
HaveCollection == Called(AllKey) /\ results[AllKey].state = "fulfilled"

Collection == results[AllKey].value

Slugs(comics) == [i \in 1..Len(comics) |-> comics[i].slug]

Instant(c) == DateGetTime(PublishDate(c))

Later(x, y) == TimeDiff(Instant(x), Instant(y)) > 0

LatestKey == Call("getLatestComic", <<>>)

RandomKey == Call("getRandomComic", <<>>)

TagsKey == Call("getAllTags", <<>>)

Elements(seq) == {seq[i] : i \in 1..Len(seq)}

\* C1: the list returned by getAllComics() is in canonical order: of two
\* adjacent records the first has the later publishDate, or both have the same
\* instant and, their slugs being valid slugs of the data model, the slug of
\* the first is not greater than the slug of the second.
C1_CanonicalOrder ==
  HaveCollection =>
    \A i \in 1..(Len(Collection) - 1) :
      LET x == Collection[i]
          y == Collection[i + 1]
      IN  \/ Later(x, y)
          \/ /\ Instant(x) = Instant(y)
             /\ (SlugRegex(x.slug) /\ SlugRegex(y.slug))
                  => CodeUnitCompare(x.slug, y.slug) <= 0

\* the records dated 03-01, 01-01, 03-01 with slugs c, a, b come out as b, c, a
C1_Witness ==
  /\ HaveCollection
  /\ Slugs(Collection) = <<<<"b">>, <<"c">>, <<"a">>>>
  /\ Instant(Collection[1]) = Instant(Collection[2])
  /\ PublishDate(Collection[1]) # PublishDate(Collection[2])

\* C2: for a slug found at index i of the sorted collection (the index of its
\* record; the first one holding it should two records share the slug),
\* getAdjacentComics(slug) returns previous = the record at i + 1, absent iff
\* i is the last index, and next = the record at i - 1, absent iff i is the
\* first index; for a slug that is not in the collection it returns both
\* absent, and it does not fail.
C2_Adjacent ==
  \A s \in SlugArgs :
    LET key == Call("getAdjacentComics", s)
    IN  (HaveCollection /\ Called(key) /\ Settled(results[key])) =>
          /\ results[key].state = "fulfilled"
          /\ LET at == {i \in 1..Len(Collection) : Collection[i].slug = s}
                 v == results[key].value
                 n == Len(Collection)
             IN  IF at = {} THEN v.previous = <<>> /\ v.next = <<>>
                 ELSE LET i == MinOf(at)
                      IN  /\ v.previous = IF i = n THEN <<>> ELSE <<Collection[i + 1]>>
                          /\ v.next = IF i = 1 THEN <<>> ELSE <<Collection[i - 1]>>

\* in the collection b, c, a the neighbours of c are previous = a and next = b
C2_Witness ==
  LET key == Call("getAdjacentComics", <<"c">>)
  IN  /\ HaveCollection
      /\ Slugs(Collection) = <<<<"b">>, <<"c">>, <<"a">>>>
      /\ Called(key)
      /\ results[key].state = "fulfilled"
      /\ Slugs(results[key].value.previous) = <<<<"a">>>>
      /\ Slugs(results[key].value.next) = <<<<"b">>>>

\* C3: getComicsByTag(t) returns exactly the records of the collection whose
\* tags hold the string t itself, in the order they have in getAllComics();
\* without a match it returns the empty list; it does not fail.
C3_ByTag ==
  \A t \in TagArgs :
    LET key == Call("getComicsByTag", t)
    IN  (HaveCollection /\ Called(key) /\ Settled(results[key])) =>
          /\ results[key].state = "fulfilled"
          /\ LET match == {i \in 1..Len(Collection) : t \in Elements(Tags(Collection[i]))}
                 out == results[key].value
             IN  /\ Len(out) = Cardinality(match)
                 /\ \A i \in match :
                      out[Cardinality({j \in match : j <= i})] = Collection[i]

\* two of three records hold the tag; a record tagged Fun is not one of them
C3_Witness ==
  LET key == Call("getComicsByTag", TagFun)
  IN  /\ HaveCollection
      /\ Called(key)
      /\ results[key].state = "fulfilled"
      /\ \/ Len(Collection) = 3 /\ Len(results[key].value) = 2
         \/ /\ \E i \in 1..Len(Collection) : TagUpperFun \in Elements(Tags(Collection[i]))
            /\ results[key].value = <<>>

\* C4: on a non-empty collection getLatestComic() returns the first element
\* of the sorted collection: no record has a later publishDate and, among the
\* records of that instant with valid slugs, none has a smaller slug.
C4_LatestIsHead ==
  (HaveCollection /\ Len(Collection) > 0 /\ Called(LatestKey) /\ Settled(results[LatestKey])) =>
    /\ results[LatestKey].state = "fulfilled"
    /\ results[LatestKey].value = Collection[1]
    /\ \A i \in 1..Len(Collection) :
         LET latest == results[LatestKey].value
             c == Collection[i]
         IN  /\ ~Later(c, latest)
             /\ (Instant(c) = Instant(latest) /\ SlugRegex(c.slug) /\ SlugRegex(latest.slug))
                  => CodeUnitCompare(latest.slug, c.slug) <= 0

\* of b, c, a the latest is b, which shares its date with c
C4_Witness ==
  /\ HaveCollection
  /\ Slugs(Collection) = <<<<"b">>, <<"c">>, <<"a">>>>
  /\ Called(LatestKey)
  /\ results[LatestKey].state = "fulfilled"
  /\ results[LatestKey].value.slug = <<"b">>

\* C5: whatever operations a request calls, in whatever number and order, the
\* content directory is read at most once in the request.
C5_OneRead == reads <= 1

\* as many calls as the bound allows, of different operations, and one read
C5_Witness ==
  /\ reads = 1
  /\ calls = MaxCalls
  /\ Cardinality(DOMAIN results) > MaxCalls
  /\ \A key \in DOMAIN results : Settled(results[key])

\* what the promise p of the call key must be, given the promise all of
\* getAllComics() of the same request
FromCollection(key, p, all) ==
  IF all.state = "rejected" THEN p.state = "rejected"
  ELSE LET comics == all.value
       IN  CASE key.op = "getLatestComic" ->
                  IF Len(comics) = 0 THEN p.state = "rejected"
                  ELSE p.state = "fulfilled" /\ p.value = comics[1]
             [] key.op = "getRandomComic" ->
                  IF Len(comics) = 0 THEN p.state = "rejected"
                  ELSE p.state = "fulfilled" /\ p.value \in Elements(comics)
             [] key.op = "getComicBySlug" ->
                  /\ p.state = "fulfilled"
                  /\ IF p.value = <<>>
                     THEN \A c \in Elements(comics) : c.slug # key.arg
                     ELSE p.value[1] \in Elements(comics) /\ p.value[1].slug = key.arg
             [] key.op = "getComicsByTag" ->
                  /\ p.state = "fulfilled"
                  /\ Elements(p.value) =
                       {c \in Elements(comics) : key.arg \in Elements(Tags(c))}
             [] key.op = "getAllTags" ->
                  /\ p.state = "fulfilled"
                  /\ Elements(p.value) = UNION {Elements(Tags(c)) : c \in Elements(comics)}
             [] key.op = "getAdjacentComics" ->
                  /\ p.state = "fulfilled"
                  /\ Elements(p.value.previous) \subseteq Elements(comics)
                  /\ Elements(p.value.next) \subseteq Elements(comics)
                  /\ (p.value.previous = <<>> /\ p.value.next = <<>>)
                       \/ key.arg \in Elements(Slugs(comics))
             [] key.op = "getAllComics" -> p = all

\* C6: with the store written while a request is in progress, every result of
\* the request is computed from the collection (or the failure) that the
\* getAllComics() of that request returned.
C6_OneSnapshot ==
  (Called(AllKey) /\ Settled(results[AllKey])) =>
    \A key \in DOMAIN results :
      Settled(results[key]) /\ FromCollection(key, results[key], results[AllKey])

\* c.mdx is gone from the store, and the request still answers from the
\* collection that holds c
C6_Witness ==
  /\ writes > 0
  /\ HaveCollection
  /\ <<"c">> \in Elements(Slugs(Collection))
  /\ NameC \notin DOMAIN entries
  /\ Called(LatestKey)
  /\ Called(Call("getAdjacentComics", <<"c">>))
  /\ results[LatestKey].state = "fulfilled"

\* the file of the directory that a read of filePath finds and can parse
Parseable(filePath) ==
  /\ dirStatus = "ok"
  /\ EntryName(filePath) \in DOMAIN entries
  /\ entries[EntryName(filePath)].kind = "file"
  /\ entries[EntryName(filePath)].read = "ok"
  /\ SchemaIssues(entries[EntryName(filePath)].data) = <<>>

\* C7: the read of the collection is all or nothing. getAllComics() lists
\* every regular file of the directory that ends in .mdx, and it returns a
\* list only if every listed file is read and validated, with one record for
\* each; a file that cannot be read or validated is never left out.
C7_AllOrNothing ==
  [][/\ (~Called(AllKey) /\ AllKey \in DOMAIN results' /\ results'[AllKey].state = "pending")
          => Elements(results'[AllKey].files) =
               {PathJoin(COMICS_DIRECTORY, n) :
                  n \in {m \in DOMAIN entries :
                           entries[m].kind = "file" /\ EndsWith(m, MdxExt)}}
     /\ (/\ Called(AllKey)
         /\ results[AllKey].state = "pending"
         /\ AllKey \in DOMAIN results'
         /\ results'[AllKey].state = "fulfilled")
          => /\ \A f \in Elements(results[AllKey].files) : Parseable(f)
             /\ Len(results'[AllKey].value) = Len(results[AllKey].files)]_vars

\* a.mdx fails validation beside a valid c.mdx: the read fails as a whole
C7_Witness ==
  /\ Called(AllKey)
  /\ results[AllKey].state = "rejected"
  /\ IncludesInvalidFrontmatter(results[AllKey].message)
  /\ Lookup(entries, NameC) = <<FileC>>
  /\ Lookup(entries, NameA) = <<FileABad>>

\* the message with which the operation of the call key wraps a failure
Annotation(key) ==
  CASE key.op = "getAllComics" -> <<"Failed to retrieve comics: ">>
    [] key.op = "getComicBySlug" ->
         <<"Failed to retrieve comic by slug \"", Join(key.arg), "\": ">>
    [] key.op = "getLatestComic" -> <<"Failed to retrieve latest comic: ">>
    [] key.op = "getComicsByTag" ->
         <<"Failed to retrieve comics by tag \"", Join(key.arg), "\": ">>
    [] key.op = "getAllTags" -> <<"Failed to retrieve all tags: ">>
    [] key.op = "getRandomComic" -> <<"Failed to retrieve random comic: ">>
    [] key.op = "getAdjacentComics" ->
         <<"Failed to retrieve adjacent comics for \"", Join(key.arg), "\": ">>

\* the message starts by naming the operation of key and its input
Annotated(key, message) == StartsWith(message, Annotation(key))

\* C8: when the adapter fails, every operation called in the request fails,
\* with a message that names the operation and the slug or tag it was given.
C8_FailureReported ==
  (Called(AllKey) /\ results[AllKey].state = "rejected") =>
    \A key \in DOMAIN results :
      /\ results[key].state = "rejected"
      /\ Annotated(key, results[key].message)

\* the directory is gone and two operations with an input have failed
C8_Witness ==
  /\ Called(AllKey)
  /\ results[AllKey].state = "rejected"
  /\ results[AllKey].message[2] = "Directory not found: "
  /\ Called(Call("getComicBySlug", <<"c">>))
  /\ Called(Call("getComicsByTag", TagFun))

\* C9 as stated: every error that reaches a caller is annotated with the
\* name of the operation (and its input).
C9_Original ==
  \A key \in DOMAIN results :
    results[key].state = "rejected" => Annotated(key, results[key].message)

\* C9: every error that reaches a caller is annotated with the name of the
\* operation and its input, except the error "No comics available" that
\* getLatestComic and getRandomComic raise, as it is, on an empty collection.
C9_ErrorsAnnotated ==
  \A key \in DOMAIN results :
    results[key].state = "rejected" =>
      \/ Annotated(key, results[key].message)
      \/ /\ key.op \in {"getLatestComic", "getRandomComic"}
         /\ results[key].message = <<"No comics available">>
         /\ HaveCollection
         /\ Collection = <<>>

\* on an empty collection getLatestComic and getRandomComic fail with the
\* bare message
C9_Witness ==
  /\ HaveCollection
  /\ Called(LatestKey)
  /\ results[LatestKey].state = "rejected"
  /\ Called(RandomKey)
  /\ results[RandomKey].message = <<"No comics available">>

-----------------------------------------------------------------------------
(* Properties of validateFrontmatter, checked under SpecValidate *)

\* an ISO 8601 date and time: YYYY-MM-DDTHH:MM:SS, an optional fraction, and
\* the zone, Z or, where offsets are allowed, +HH:MM or -HH:MM
Iso8601(s, offsets) ==
  LET zone == IF Len(s) >= 20 /\ s[Len(s)] = "Z" THEN 1
              ELSE IF /\ offsets
                      /\ Len(s) >= 25
                      /\ s[Len(s) - 5] \in {"+", "-"}
                      /\ s[Len(s) - 2] = ":"
                      /\ \A i \in {Len(s) - 4, Len(s) - 3, Len(s) - 1, Len(s)} : IsDigit(s[i])
              THEN 6
              ELSE 0
      fraction == SubSeq(s, 20, Len(s) - zone)
  IN  /\ zone > 0
      /\ \A i \in {1, 2, 3, 4, 6, 7, 9, 10, 12, 13, 15, 16, 18, 19} : IsDigit(s[i])
      /\ <<s[5], s[8], s[11], s[14], s[17]>> = <<"-", "-", "T", ":", ":">>
      /\ fraction = <<>>
           \/ (Len(fraction) >= 2 /\ fraction[1] = "."
               /\ \A i \in 2..Len(fraction) : IsDigit(fraction[i]))

IsText(data, f, min, max) ==
  /\ Has(data, f)
  /\ data[f].t = "string"
  /\ Len(data[f].s) >= min
  /\ Len(data[f].s) <= max

\* the fields of data that break the data model, where an author has at
\* least authorMin characters and a date may have an offset if offsets
BrokenFields(data, authorMin, offsets) ==
  {f \in Fields :
     CASE f = "title" -> ~IsText(data, f, 1, 100)
       [] f = "slug" -> ~(IsText(data, f, 1, Len(data[f].s)) /\ SlugRegex(data[f].s))
       [] f = "publishDate" ->
            ~(IsText(data, f, 0, Len(data[f].s)) /\ Iso8601(data[f].s, offsets))
       [] f = "synopsis" -> ~IsText(data, f, 10, 300)
       [] f = "tags" ->
            ~(/\ Has(data, f)
              /\ data[f].t = "array"
              /\ Len(data[f].items) \in 1..5
              /\ \A i \in 1..Len(data[f].items) :
                   data[f].items[i].t = "string" /\ Len(data[f].items[i].s) \in 2..20)
       [] f = "readingTime" ->
            ~(Has(data, f) /\ data[f].t = "number" /\ data[f].n > 0 /\ data[f].n % 10 = 0)
       [] f = "coverImage" ->
            ~(IsText(data, f, 0, Len(data[f].s)) /\ StartsWith(data[f].s, ComicsPrefix))
       [] f = "author" -> Has(data, f) /\ ~IsText(data, f, authorMin, 50)
       [] f = "featured" -> Has(data, f) /\ data[f].t # "boolean"}

\* the message has a part that is the field f or an element of it
Names(message, f) ==
  \E i \in 1..Len(message) :
    message[i] = f \/ \E d \in Elements(Digits) : message[i] = f \o "." \o d

\* C10 as stated: validateFrontmatter rejects a map iff it breaks the data
\* model (author, when present, at most 50 characters; publishDate an ISO 8601
\* datetime), and the message names every field that breaks it.
C10_Original ==
  vResult # <<>> =>
    /\ vResult[1].ok <=> BrokenFields(vInput, 0, TRUE) = {}
    /\ \A f \in BrokenFields(vInput, 0, TRUE) : Names(vResult[1].message, f)

\* what validateFrontmatter does: it rejects a map iff it breaks the data
\* model read with an author of 1 to 50 characters and a publishDate in UTC,
\* ending in Z; the message names every field that breaks it.
ValidationAsCoded ==
  vResult # <<>> =>
    /\ vResult[1].ok <=> BrokenFields(vInput, 1, FALSE) = {}
    /\ \A f \in BrokenFields(vInput, 1, FALSE) : Names(vResult[1].message, f)

\* a map that breaks no constraint of the data model, its publishDate being
\* 2024-03-01T00:00:00+01:00, is rejected with a message on publishDate
C10_Witness ==
  /\ vResult # <<>>
  /\ Has(vInput, "publishDate")
  /\ vInput["publishDate"] = StrV(DateOffset)
  /\ BrokenFields(vInput, 0, TRUE) = {}
  /\ ~vResult[1].ok
  /\ Names(vResult[1].message, "publishDate")

-----------------------------------------------------------------------------
(* lib/rss *)

\* process.env.NEXT_PUBLIC_SITE_URL || 'http://localhost:3000'
SITE_URL ==
  <<"h", "t", "t", "p", ":", "/", "/", "l", "o", "c", "a", "l", "h", "o",
    "s", "t", ":", "3", "0", "0", "0">>

\* SITE_INFO.managingEditor
ManagingEditor ==
  <<"e", "d", "i", "t", "o", "r", "@", "m", "u", "m", "o", "c", "o", "m",
    "i", "c", "s", ".", "c", "o", "m", " ", "(", "M", "u", "m", "o", " ",
    "C", "o", "m", "i", "c", "s", " ", "T", "e", "a", "m", ")">>

ComicsPath == <<"/", "c", "o", "m", "i", "c", "s", "/">>

EntityAmp == <<"&", "a", "m", "p", ";">>

EntityLt == <<"&", "l", "t", ";">>

EntityGt == <<"&", "g", "t", ";">>

EntityQuot == <<"&", "q", "u", "o", "t", ";">>

EntityApos == <<"&", "a", "p", "o", "s", ";">>

RECURSIVE ReplaceAll(_, _, _)
\* text.replace(/ch/g, by): one pass, the replacement is not scanned again
ReplaceAll(text, ch, by) ==
  IF text = <<>> THEN <<>>
  ELSE (IF Head(text) = ch THEN by ELSE <<Head(text)>>) \o ReplaceAll(Tail(text), ch, by)

\* an escape that replaces & after the other characters
escapeXMLAmpLast(text) ==
  ReplaceAll(
    ReplaceAll(
      ReplaceAll(
        ReplaceAll(
          ReplaceAll(text, "<", EntityLt),
          ">", EntityGt),
        "\"", EntityQuot),
      "'", EntityApos),
    "&", EntityAmp)

escapeXML(text) ==
  ReplaceAll(
    ReplaceAll(
      ReplaceAll(
        ReplaceAll(
          ReplaceAll(text, "&", EntityAmp),
          "<", EntityLt),
        ">", EntityGt),
      "\"", EntityQuot),
    "'", EntityApos)

WeekDays == <<"Sun", "Mon", "Tue", "Wed", "Thu", "Fri", "Sat">>

Months ==
  <<"Jan", "Feb", "Mar", "Apr", "May", "Jun", "Jul", "Aug", "Sep", "Oct", "Nov", "Dec">>

\* new Date(dateString).toUTCString() of a datetime string in UTC, such as
\* Mon, 15 Jan 2024 10:00:00 GMT
formatRSSDate(dateString) ==
  LET days == DaysFromCivil(Num2(dateString, 1) * 100 + Num2(dateString, 3),
                            Num2(dateString, 6), Num2(dateString, 9))
  IN  <<WeekDays[((days + 4) % 7) + 1], ", ", Join(SubSeq(dateString, 9, 10)), " ",
        Months[Num2(dateString, 6)], " ", Join(SubSeq(dateString, 1, 4)), " ",
        Join(SubSeq(dateString, 12, 19)), " GMT">>

\* generateRSSItem(comic): the texts put into the places of the item template
generateRSSItem(comic) ==
  LET title == comic.frontmatter["title"].s
      synopsis == comic.frontmatter["synopsis"].s
      publishDate == comic.frontmatter["publishDate"].s
      author == IF Has(comic.frontmatter, "author") THEN comic.frontmatter["author"].s
                ELSE <<>>
      coverImage == comic.frontmatter["coverImage"].s
      link == SITE_URL \o ComicsPath \o comic.slug
      imageUrl == SITE_URL \o coverImage
  IN  [title |-> escapeXML(title),
       link |-> link,
       guid |-> link,
       imgSrc |-> imageUrl,
       imgAlt |-> escapeXML(title),
       synopsis |-> escapeXML(synopsis),
       href |-> link,
       pubDate |-> formatRSSDate(publishDate),
       author |-> escapeXML(IF author # <<>> THEN author ELSE ManagingEditor),
       enclosureUrl |-> imageUrl]

\* comics.slice(0, 20)
FeedLimit == 20

Slice(comics, from, to) ==
  SubSeq(comics, from + 1, IF to < Len(comics) THEN to ELSE Len(comics))

\* a feed of every comic
generateRSSFeedUncut(comics, now) ==
  [lastBuildDate |-> IF Len(comics) > 0 THEN formatRSSDate(PublishDate(comics[1]))
                     ELSE formatRSSDate(now),
   items |-> [i \in 1..Len(comics) |-> generateRSSItem(comics[i])]]

\* generateRSSFeed(comics), now being new Date().toISOString()
generateRSSFeed(comics, now) ==
  LET recentComics == Slice(comics, 0, FeedLimit)
  IN  [lastBuildDate |-> IF Len(recentComics) > 0
                         THEN formatRSSDate(PublishDate(recentComics[1]))
                         ELSE formatRSSDate(now),
       items |-> [i \in 1..Len(recentComics) |-> generateRSSItem(recentComics[i])]]

\* app/api/rss: the response of GET, all being the outcome of getAllComics()
GET(all, now) ==
  IF all.state = "rejected"
  THEN [status |-> 500, contentType |-> "text/plain", body |-> "Error generating RSS feed"]
  ELSE [status |-> 200, contentType |-> "application/rss+xml; charset=utf-8",
        body |-> generateRSSFeed(all.value, now)]

-----------------------------------------------------------------------------
(* The feed on its own: one collection, served once *)

\* the length of the longest collection a feed is made of
MaxRecords == 22

\* the length of the longest title tried
MaxTitleLen == 2

\* 2024-01-dd at midnight
DayDate(dd) ==
  SubSeq(Date0101, 1, 8) \o <<Digits[(dd \div 10) + 1], Digits[(dd % 10) + 1]>>
    \o SubSeq(Date0101, 11, 20)

\* the record of the k-th file of a long directory; two files share each date
Numbered(k) ==
  LET slug == <<"n", Digits[(k \div 10) + 1], Digits[(k % 10) + 1]>>
  IN  [frontmatter |-> Frontmatter(slug, DayDate((k + 1) \div 2), <<TagFun>>),
       slug |-> slug]

\* the first n records in the order of their files
NumberedList(n) == [k \in 1..n |-> Numbered(k)]

XmlSpecial == {"&", "<", ">", "\"", "'"}

Titles ==
  UNION {[1..n -> XmlSpecial \cup {"a"}] : n \in 1..MaxTitleLen}
    \cup {EntityLt, <<"a", "&", "&", "l", "t", ";", "<", "a", ">">>}

CoverImages ==
  {ComicsPrefix \o <<"c">>, ComicsPrefix \o <<"a", "&", "b">>,
   ComicsPrefix \o <<"\"", ">", "<", "'">>}

Authors == {<<>>, <<"A", "&", "B">>}

\* the slugs of the files a.mdx and a&b.mdx
FeedSlugs == {<<"a">>, <<"a", "&", "b">>}

\* the record of one file, author <<>> standing for a file without author
FeedRecord(slug, title, coverImage, author) ==
  LET named == With(With(Frontmatter(<<"a">>, Date0301, <<TagFun>>), "title", StrV(title)),
                    "coverImage", StrV(coverImage))
  IN  [frontmatter |-> IF author = <<>> THEN named ELSE With(named, "author", StrV(author)),
       slug |-> slug]

\* what GET is given by getAllComics(): a sorted collection or a failure
FeedCollections ==
  {Fulfilled(SortComics(NumberedList(n))) : n \in 0..MaxRecords}
    \cup {Fulfilled(<<FeedRecord(s, t, c, a)>>) :
            s \in FeedSlugs, t \in Titles, c \in CoverImages, a \in Authors}
    \cup {Rejected(<<"Failed to retrieve comics: ", "Directory not found: ",
                     Join(COMICS_DIRECTORY)>>)}

FeedRequests ==
  {[via |-> "GET", all |-> all, now |-> Date0101] : all \in FeedCollections}
    \cup {[via |-> "generateRSSFeed", all |-> Fulfilled(NumberedList(n)), now |-> Date0101] :
            n \in 0..MaxRecords}

InitFeed ==
  /\ dirStatus = "ok"
  /\ entries = Dir({})
  /\ results = NoCalls
  /\ calls = 0
  /\ reads = 0
  /\ writes = 0
  /\ vInput = ValidMetadata
  /\ vResult = <<>>
  /\ request \in FeedRequests
  /\ response = <<>>
  /\ newComic = <<>>
  /\ supabase = <<>>
  /\ dashboard = <<>>
  /\ upload = <<>>

\* GET /api/rss
ServeFeed ==
  /\ response = <<>>
  /\ request.via = "GET"
  /\ response' = <<GET(request.all, request.now)>>
  /\ UNCHANGED <<dirStatus, entries, results, calls, reads, writes, vInput, vResult, request,
                 newComic, supabase, dashboard, upload>>

\* generateRSSFeed called with a list as the adapter gave it
GenerateFeed ==
  /\ response = <<>>
  /\ request.via = "generateRSSFeed"
  /\ response' = <<[status |-> 200, contentType |-> "",
                    body |-> generateRSSFeed(request.all.value, request.now)]>>
  /\ UNCHANGED <<dirStatus, entries, results, calls, reads, writes, vInput, vResult, request,
                 newComic, supabase, dashboard, upload>>

NextFeed == ServeFeed \/ GenerateFeed

SpecFeed == InitFeed /\ [][NextFeed]_vars

-----------------------------------------------------------------------------
(* Properties of the feed, checked under SpecFeed *)

\* a feed has been generated
FeedDone == response # <<>> /\ response[1].status = 200

FeedItems == response[1].body.items

\* the list the feed was made of
FeedInput == request.all.value

ItemLink(c) == SITE_URL \o ComicsPath \o c.slug

Canonical(comics) ==
  \A i \in 1..(Len(comics) - 1) :
    \/ Later(comics[i], comics[i + 1])
    \/ /\ Instant(comics[i]) = Instant(comics[i + 1])
       /\ CodeUnitCompare(comics[i].slug, comics[i + 1].slug) <= 0

\* C11: a feed made of n records has 20 entries if n > 20 and n entries
\* otherwise; its i-th entry is the entry of the i-th record of the list, so
\* the generator truncates and does not sort; the list GET hands to it is the
\* collection in canonical order, so the feed served holds the first 20
\* records of that order.
C11_FeedLimit ==
  FeedDone =>
    /\ Len(FeedItems) = IF Len(FeedInput) > 20 THEN 20 ELSE Len(FeedInput)
    /\ \A i \in 1..Len(FeedItems) :
         /\ FeedItems[i].link = ItemLink(FeedInput[i])
         /\ FeedItems[i].guid = ItemLink(FeedInput[i])
         /\ FeedItems[i].pubDate = formatRSSDate(PublishDate(FeedInput[i]))
    /\ request.via = "GET" => Canonical(FeedInput)

\* of 22 records the feed served holds 20, from n21 (the latest date, the
\* smaller slug) to n04; n01 and n02, the oldest, are left out
C11_Witness ==
  /\ FeedDone
  /\ request.via = "GET"
  /\ Len(FeedInput) = 22
  /\ Len(FeedItems) = 20
  /\ FeedItems[1].link = ItemLink(Numbered(21))
  /\ FeedItems[20].link = ItemLink(Numbered(4))

\* text has none of < > " ' and every & of it starts a named entity
NoRaw(text) ==
  \A i \in 1..Len(text) :
    /\ text[i] \notin {"<", ">", "\"", "'"}
    /\ text[i] = "&" =>
         \E e \in {EntityAmp, EntityLt, EntityGt, EntityQuot, EntityApos} :
           StartsWith(SubSeq(text, i, Len(text)), e)

RECURSIVE Decode(_)
\* text as an XML parser reads it: each named entity is one character
Decode(text) ==
  IF text = <<>> THEN <<>>
  ELSE IF StartsWith(text, EntityAmp) THEN <<"&">> \o Decode(SubSeq(text, 6, Len(text)))
  ELSE IF StartsWith(text, EntityLt) THEN <<"<">> \o Decode(SubSeq(text, 5, Len(text)))
  ELSE IF StartsWith(text, EntityGt) THEN <<">">> \o Decode(SubSeq(text, 5, Len(text)))
  ELSE IF StartsWith(text, EntityQuot) THEN <<"\"">> \o Decode(SubSeq(text, 7, Len(text)))
  ELSE IF StartsWith(text, EntityApos) THEN <<"'">> \o Decode(SubSeq(text, 7, Len(text)))
  ELSE <<Head(text)>> \o Decode(Tail(text))

\* slot carries text escaped: nothing raw in it, and it reads back as text
Carries(slot, text) == NoRaw(slot) /\ Decode(slot) = text

\* C12: the entry of a record carries its title with each of < > & " '
\* replaced by its named entity: none of them is left raw, and the title
\* reads back as it was, so that nothing is escaped twice.
C12_TitleEscaped ==
  FeedDone =>
    \A i \in 1..Len(FeedItems) :
      /\ Carries(FeedItems[i].title, FeedInput[i].frontmatter["title"].s)
      /\ FeedItems[i].imgAlt = FeedItems[i].title

\* the title a&&lt;<a> is carried as a&amp;&amp;lt;&lt;a&gt;
C12_Witness ==
  /\ FeedDone
  /\ Len(FeedItems) = 1
  /\ FeedInput[1].frontmatter["title"].s = <<"a", "&", "&", "l", "t", ";", "<", "a", ">">>
  /\ FeedItems[1].title =
       <<"a">> \o EntityAmp \o EntityAmp \o <<"l", "t", ";">> \o EntityLt \o <<"a">> \o EntityGt

\* the author of a record, or the editor of the site for a record without
AuthorOf(c) ==
  IF Has(c.frontmatter, "author") THEN c.frontmatter["author"].s ELSE ManagingEditor

\* C13 as stated: every text of the record put into the entry (title,
\* synopsis, author, the slug in link and guid, the cover image path in the
\* enclosure url and in the img src) is escaped.
C13_Original ==
  FeedDone =>
    \A i \in 1..Len(FeedItems) :
      LET c == FeedInput[i]
          item == FeedItems[i]
      IN  /\ Carries(item.title, c.frontmatter["title"].s)
          /\ Carries(item.synopsis, c.frontmatter["synopsis"].s)
          /\ Carries(item.author, AuthorOf(c))
          /\ Carries(item.link, ItemLink(c))
          /\ Carries(item.guid, ItemLink(c))
          /\ Carries(item.href, ItemLink(c))
          /\ Carries(item.enclosureUrl, SITE_URL \o c.frontmatter["coverImage"].s)
          /\ Carries(item.imgSrc, SITE_URL \o c.frontmatter["coverImage"].s)

\* a record with a valid slug and the cover image /comics/a&b: the url of its
\* enclosure holds the & as it is
C13_Witness ==
  /\ FeedDone
  /\ Len(FeedItems) = 1
  /\ SlugRegex(FeedInput[1].slug)
  /\ SchemaIssues(FeedInput[1].frontmatter) = <<>>
  /\ FeedInput[1].frontmatter["coverImage"].s = ComicsPrefix \o <<"a", "&", "b">>
  /\ FeedItems[1].enclosureUrl = SITE_URL \o ComicsPrefix \o <<"a", "&", "b">>
  /\ ~NoRaw(FeedItems[1].enclosureUrl)

-----------------------------------------------------------------------------
(* Further properties of lib/comics, checked under Spec *)

\* the names of the regular files of the directory that end in .mdx
MdxNames == {n \in DOMAIN entries : entries[n].kind = "file" /\ EndsWith(n, MdxExt)}

\* on an empty collection every answer given is the empty one
EmptyAnswers ==
  (HaveCollection /\ Collection = <<>>) =>
    \A key \in DOMAIN results :
      Settled(results[key]) =>
        CASE key.op = "getAllTags" -> results[key] = Fulfilled(<<>>)
          [] key.op = "getComicBySlug" -> results[key] = Fulfilled(<<>>)
          [] key.op = "getComicsByTag" -> results[key] = Fulfilled(<<>>)
          [] OTHER -> TRUE

\* C14: when the adapter returns no records (the directory can be read and
\* has no regular .mdx file), getAllComics() lists nothing and succeeds with
\* the empty list; on that collection getAllTags() returns the empty list,
\* getComicBySlug(x) absent and getComicsByTag(x) the empty list, whatever x.
C14_EmptyCollection ==
  [][/\ (~Called(AllKey) /\ AllKey \in DOMAIN results' /\ dirStatus = "ok" /\ MdxNames = {})
          => results'[AllKey] = Pending(<<>>)
     /\ (/\ Called(AllKey)
         /\ results[AllKey] = Pending(<<>>)
         /\ AllKey \in DOMAIN results'
         /\ Settled(results'[AllKey]))
          => results'[AllKey] = Fulfilled(<<>>)
     /\ EmptyAnswers']_vars

\* the directory is empty; getAllTags() and getComicBySlug(z) have answered
C14_Witness ==
  /\ dirStatus = "ok"
  /\ MdxNames = {}
  /\ HaveCollection
  /\ Collection = <<>>
  /\ Called(TagsKey)
  /\ results[TagsKey] = Fulfilled(<<>>)
  /\ Called(Call("getComicBySlug", <<"z">>))
  /\ results[Call("getComicBySlug", <<"z">>)] = Fulfilled(<<>>)

\* C15: on a collection that is not empty getRandomComic() returns an element
\* of the collection getAllComics() returns; on an empty collection it fails
\* as getLatestComic() does, with the error "No comics available".
C15_RandomIsMember ==
  (HaveCollection /\ Called(RandomKey) /\ Settled(results[RandomKey])) =>
    IF Len(Collection) > 0
    THEN /\ results[RandomKey].state = "fulfilled"
         /\ \E i \in 1..Len(Collection) : results[RandomKey].value = Collection[i]
    ELSE /\ results[RandomKey] = Rejected(<<"No comics available">>)
         /\ (Called(LatestKey) /\ Settled(results[LatestKey]))
              => results[LatestKey] = results[RandomKey]

\* of three records the random one is the last, which is not the latest
C15_Witness ==
  /\ HaveCollection
  /\ Len(Collection) = 3
  /\ Called(RandomKey)
  /\ results[RandomKey].state = "fulfilled"
  /\ results[RandomKey].value = Collection[3]
  /\ results[RandomKey].value # Collection[1]

-----------------------------------------------------------------------------
(* app/page: the home page, rendered once for one state of the store *)

\* Home(): latest and all are the outcomes of its calls getLatestComic() and
\* getAllComics(); an await of a rejected promise throws out of the page
Home(latest, all) ==
  IF latest.state = "rejected" THEN [kind |-> "error", message |-> MessageOf(latest)]
  ELSE IF all.state = "rejected" THEN [kind |-> "error", message |-> MessageOf(all)]
  ELSE IF Len(all.value) = 0
  THEN [kind |-> "empty", message |-> <<"No comics have been published yet.">>]
  ELSE [kind |-> "page", hero |-> latest.value, recent |-> Slice(all.value, 0, 3)]

\* the number of entries of the largest directory a page is rendered for
MaxEntries == 3

\* the directories of at most MaxEntries entries
SmallStores ==
  {Dir(es) : es \in {fs \in SUBSET Catalog :
                       /\ Cardinality(fs) <= MaxEntries
                       /\ \A e, f \in fs : e.name = f.name => e = f}}

\* the outcomes of getAllComics() in a request made on the store as it is
GetAllComicsNow ==
  UNION {IF Settled(listed) THEN {listed}
         ELSE ParseAndSort(Visible(dirStatus, entries), listed.files) :
           listed \in ListFiles(dirStatus, entries)}

InitHome ==
  /\ dirStatus \in {"ok", "ENOENT", "EACCES"}
  /\ entries \in SmallStores
  /\ dirStatus = "ENOENT" => entries = Dir({})
  /\ results = NoCalls
  /\ calls = 0
  /\ reads = 0
  /\ writes = 0
  /\ vInput = ValidMetadata
  /\ vResult = <<>>
  /\ request = <<>>
  /\ response = <<>>
  /\ newComic = <<>>
  /\ supabase = <<>>
  /\ dashboard = <<>>
  /\ upload = <<>>

\* A request for the home page: getLatestComic() and getAllComics() share the
\* one read of the request.
RenderHome ==
  /\ response = <<>>
  /\ \E all \in GetAllComicsNow : response' = <<Home(getLatestComic(all), all)>>
  /\ UNCHANGED <<dirStatus, entries, results, calls, reads, writes, vInput, vResult, request,
                 newComic, supabase, dashboard, upload>>

NextHome == RenderHome

SpecHome == InitHome /\ [][NextHome]_vars

\* C16 as stated: when no comics are published (the directory can be read and
\* has no .mdx file), rendering the home page reaches the empty state with
\* its message; it does not fail.
C16_Original ==
  (response # <<>> /\ dirStatus = "ok" /\ MdxNames = {}) => response[1].kind = "empty"

\* the directory is empty: Home() fails with the error of getLatestComic()
C16_Witness ==
  /\ dirStatus = "ok"
  /\ entries = Dir({})
  /\ response = <<[kind |-> "error", message |-> <<"No comics available">>]>>

-----------------------------------------------------------------------------
(* extractSlugFromFilename on its own: one file name, one call *)

NameMumo ==
  <<"2", "0", "2", "4", "-", "0", "1", "-", "m", "u", "m", "o", "-", "m",
    "e", "e", "t", "s", "-", "w", "o", "r", "l", "d", ".", "m", "d", "x">>

NameNoDate ==
  <<"n", "o", "-", "d", "a", "t", "e", "-", "p", "r", "e", "f", "i", "x",
    ".", "m", "d", "x">>

SlugMumo ==
  <<"m", "u", "m", "o", "-", "m", "e", "e", "t", "s", "-", "w", "o", "r",
    "l", "d">>

SlugNoDate ==
  <<"n", "o", "-", "d", "a", "t", "e", "-", "p", "r", "e", "f", "i", "x">>

\* what a file name may start with
NamePrefixes ==
  {<<>>, <<"2", "0", "2", "4", "-", "0", "1", "-">>,
   <<"2", "0", "2", "4", "-", "0", "1", "-", "2", "0", "2", "3", "-", "0",
     "2", "-">>,
   <<"2", "0", "2", "-", "0", "1", "-">>, <<"2", "0", "2", "4", "-", "1", "-">>,
   <<"2", "0", "2", "4", "_", "0", "1", "-">>, <<"x", "2", "0", "2", "4", "-", "0", "1", "-">>,
   <<"2", "0", "2", "4", "0", "-", "0", "1", "-">>, <<"2", "0", "2", "4", "-", "0", "1">>}

NameStems ==
  {<<>>, <<"a">>, <<"A", "_", "b">>, <<"a", ".", "m", "d", "x">>,
   SlugMumo, SlugNoDate}

NameEndings ==
  {<<>>, MdxExt, <<".", "m", "d">>, <<".", "M", "D", "X">>,
   <<".", "m", "d", "x", ".", "b", "a", "k">>}

\* the file names, alone and below the content directory
Filenames ==
  {d \o p \o s \o e :
     d \in {<<>>, COMICS_DIRECTORY \o <<"/">>},
     p \in NamePrefixes, s \in NameStems, e \in NameEndings}

InitSlug ==
  /\ dirStatus = "ok"
  /\ entries = Dir({})
  /\ results = NoCalls
  /\ calls = 0
  /\ reads = 0
  /\ writes = 0
  /\ vInput = ValidMetadata
  /\ vResult = <<>>
  /\ request \in Filenames
  /\ response = <<>>
  /\ newComic = <<>>
  /\ supabase = <<>>
  /\ dashboard = <<>>
  /\ upload = <<>>

ExtractSlug ==
  /\ response = <<>>
  /\ response' = <<extractSlugFromFilename(request)>>
  /\ UNCHANGED <<dirStatus, entries, results, calls, reads, writes, vInput, vResult, request,
                 newComic, supabase, dashboard, upload>>

NextSlug == ExtractSlug

SpecSlug == InitSlug /\ [][NextSlug]_vars

\* the part of a path after its last "/"
AfterSlash(p) ==
  LET slashes == {i \in 1..Len(p) : p[i] = "/"}
  IN  IF slashes = {} THEN p
      ELSE SubSeq(p, (CHOOSE i \in slashes : \A j \in slashes : j <= i) + 1, Len(p))

\* s is YYYY-MM-
IsDatePrefix(s) ==
  /\ Len(s) = 8
  /\ \A i \in {1, 2, 3, 4, 6, 7} : s[i] \in {"0", "1", "2", "3", "4", "5", "6", "7", "8", "9"}
  /\ s[5] = "-"
  /\ s[8] = "-"

\* C17: extractSlugFromFilename returns the name of the file without a final
\* .mdx and without one leading YYYY-MM-, which it takes off only when the
\* name starts with four digits, a hyphen, two digits and a hyphen; so
\* 2024-01-mumo-meets-world.mdx gives mumo-meets-world and no-date-prefix.mdx
\* gives no-date-prefix. (Of a file named .mdx and nothing else the slug is
\* the name or the empty string.)
C17_SlugFromFilename ==
  response # <<>> =>
    LET slug == response[1]
        name == AfterSlash(request)
        stem == IF EndsWith(name, MdxExt) THEN SubSeq(name, 1, Len(name) - 4) ELSE name
    IN  /\ name # MdxExt =>
             IF Len(stem) >= 8 /\ IsDatePrefix(SubSeq(stem, 1, 8))
             THEN stem = SubSeq(stem, 1, 8) \o slug
             ELSE slug = stem
        /\ name = MdxExt => slug \in {<<>>, MdxExt}
        /\ name = NameMumo => slug = SlugMumo
        /\ name = NameNoDate => slug = SlugNoDate

\* 2024-01-mumo-meets-world.mdx in the content directory gives mumo-meets-world
C17_Witness ==
  /\ request = COMICS_DIRECTORY \o <<"/">> \o NameMumo
  /\ response = <<SlugMumo>>

\* C18: getComicBySlug(slug) returns the first record of the sorted
\* collection whose slug is the argument; it returns absent exactly when the
\* retrieval succeeded and no record has the slug, and fails when the
\* retrieval failed.
C18_FirstBySlug ==
  \A s \in SlugArgs :
    LET key == Call("getComicBySlug", s)
    IN  (Called(AllKey) /\ Settled(results[AllKey]) /\ Called(key)) =>
          IF results[AllKey].state = "rejected" THEN results[key].state = "rejected"
          ELSE /\ results[key].state = "fulfilled"
               /\ LET at == {i \in 1..Len(Collection) : Collection[i].slug = s}
                  IN  /\ results[key].value = <<>> <=> at = {}
                      /\ at # {} => /\ results[key].value = <<Collection[MinOf(at)]>>
                                    /\ \A i \in 1..(MinOf(at) - 1) : Collection[i].slug # s

\* two files give the slug a: the record returned is the first of the two
C18_Witness ==
  LET key == Call("getComicBySlug", <<"a">>)
  IN  /\ HaveCollection
      /\ Len(Collection) = 2
      /\ Collection[1].slug = <<"a">>
      /\ Collection[2].slug = <<"a">>
      /\ Collection[1] # Collection[2]
      /\ Called(key)
      /\ results[key] = Fulfilled(<<Collection[1]>>)

C20_Original ==
  HaveCollection =>
    /\ \A i \in 1..Len(Collection) : SlugRegex(Collection[i].slug)
    /\ \A i, j \in 1..Len(Collection) : Collection[i].slug = Collection[j].slug => i = j

\* the file B.mdx, whose metadata are valid and name the slug bb, gives a
\* record with the slug B
C20_Witness ==
  /\ HaveCollection
  /\ \E i \in 1..Len(Collection) :
       /\ Collection[i].slug = <<"B">>
       /\ Collection[i].frontmatter["slug"].s = <<"b", "b">>
       /\ SchemaIssues(Collection[i].frontmatter) = <<>>
       /\ ~SlugRegex(Collection[i].slug)

-----------------------------------------------------------------------------
(* app/admin/new: the NewComic form and its submit *)

RECURSIVE HyphenateRuns(_, _)
\* .replace(/[^a-z0-9]+/g, '-'): every run of other characters becomes one
\* hyphen; inRun says that the character before was part of such a run
HyphenateRuns(text, inRun) ==
  IF text = <<>> THEN <<>>
  ELSE IF IsLower(Head(text)) \/ IsDigit(Head(text))
  THEN <<Head(text)>> \o HyphenateRuns(Tail(text), FALSE)
  ELSE (IF inRun THEN <<>> ELSE <<"-">>) \o HyphenateRuns(Tail(text), TRUE)

\* .replace(/(^-|-$)/g, '')
TrimHyphens(text) ==
  LET a == IF text # <<>> /\ Head(text) = "-" THEN Tail(text) ELSE text
  IN  IF a # <<>> /\ a[Len(a)] = "-" THEN SubSeq(a, 1, Len(a) - 1) ELSE a

generateSlug(title) == TrimHyphens(HyphenateRuns(LowerCase(title), FALSE))

RECURSIVE Split(_, _)
\* text.split(sep), sep one character
Split(text, sep) ==
  IF \A i \in 1..Len(text) : text[i] # sep THEN <<text>>
  ELSE LET k == MinOf({i \in 1..Len(text) : text[i] = sep})
       IN  <<SubSeq(text, 1, k - 1)>> \o Split(SubSeq(text, k + 1, Len(text)), sep)

RECURSIVE Trim(_)
\* tag.trim()
Trim(text) ==
  IF text # <<>> /\ Head(text) = " " THEN Trim(Tail(text))
  ELSE IF text # <<>> /\ text[Len(text)] = " " THEN Trim(SubSeq(text, 1, Len(text) - 1))
  ELSE text

RECURSIVE NonEmpty(_)
\* .filter((tag) => tag.length > 0), also .filter(Boolean) of strings
NonEmpty(strs) ==
  IF strs = <<>> THEN <<>>
  ELSE (IF Head(strs) = <<>> THEN <<>> ELSE <<Head(strs)>>) \o NonEmpty(Tail(strs))

\* formData.tags.split(',').map((tag) => tag.trim()).filter((tag) => tag.length > 0)
ParseTags(text) ==
  LET parts == Split(text, ",")
  IN  NonEmpty([i \in 1..Len(parts) |-> Trim(parts[i])])

\* `${formData.slug}/panel-${i + 1}.${fileExt}`
FilePath(slug, i, fileExt) == <<slug, "/panel-", i + 1, ".", fileExt>>

\* the cover is the first uploaded image, '' without images
CoverImageUrl(uploadedUrls) ==
  IF Len(uploadedUrls) > 0
  THEN <<"/storage/v1/object/public/comic-images/", uploadedUrls[1]>>
  ELSE <<>>

\* the row handleSubmit inserts (author, featured, content and publish_date,
\* which no constraint of the claims reads, are left out)
InsertedRow(formData, uploadedUrls) ==
  [title |-> formData.title,
   slug |-> formData.slug,
   synopsis |-> formData.synopsis,
   tags |-> ParseTags(formData.tags),
   reading_time |-> formData.readingTime,
   cover_image_url |-> CoverImageUrl(uploadedUrls)]

\* a submit that inserts without waiting for the uploads
StartUploadsOrInsertAtOnce(form) ==
  [form EXCEPT !.pc = "inserting", !.row = <<InsertedRow(form.submitted.formData, <<>>)>>]

\* handleSubmit from its start or from a successful upload on: the next
\* upload is awaited, or, after the last one, the insert
StartUploadsOrInsert(form) ==
  LET done == Len(form.uploadedUrls)
      panels == form.submitted.panelImages
  IN  IF done < Len(panels)
      THEN [form EXCEPT !.pc = "uploading", !.error = "Uploading images..."]
      ELSE [form EXCEPT !.pc = "inserting",
                        !.row = <<InsertedRow(form.submitted.formData, form.uploadedUrls)>>]

\* the catch block of handleSubmit
SubmitCatch(form, message) ==
  [form EXCEPT !.pc = "idle", !.error = message, !.loading = FALSE]

\* the Comic Record field constraints, on a row of the comics table
ComicRecordConstraints(row) ==
  /\ Len(row.title) \in 1..100
  /\ SlugRegex(row.slug)
  /\ Len(row.synopsis) \in 10..300
  /\ Len(row.tags) \in 1..5
  /\ \A i \in 1..Len(row.tags) : Len(row.tags[i]) \in 2..20
  /\ row.reading_time >= 1
  /\ row.cover_image_url # <<>>

-----------------------------------------------------------------------------
(* The NewComic form as a state machine *)

\* the number of panel images of the longest list tried
MaxPanels == 2

\* the number of submits of one visit of the form
MaxSubmits == 1

TitleInputs == {<<"H", "i">>, <<" ", "A", "-", "-", "b", "!">>}

\* a slug typed by hand
SlugInputs == {<<"H", "i">>}

SynopsisInputs == {Text(4), Text(12)}

TagsInputs == {<<"f", "u", "n", ",", " ", "c", "a", "t", "s", ",">>}

\* the k-th panel image of the list
Panel(k) == [id |-> k, ext |-> IF k % 2 = 1 THEN "png" ELSE "jpg"]

PanelLists == {[k \in 1..n |-> Panel(k)] : n \in 0..MaxPanels}

\* a row that the table holds before the form is opened
ExistingRow ==
  [title |-> <<"H", "i">>, slug |-> <<"h", "i">>, synopsis |-> Text(12),
   tags |-> <<TagFun>>, reading_time |-> 5,
   cover_image_url |-> CoverImageUrl(<<FilePath(<<"h", "i">>, 0, "png")>>)]

\* useState of NewComic
InitialFormData ==
  [title |-> <<>>, slug |-> <<>>, synopsis |-> <<>>, tags |-> <<>>, readingTime |-> 5]

InitNewComic ==
  /\ dirStatus = "ok"
  /\ entries = Dir({})
  /\ results = NoCalls
  /\ calls = 0
  /\ reads = 0
  /\ writes = 0
  /\ vInput = ValidMetadata
  /\ vResult = <<>>
  /\ request = <<>>
  /\ response = <<>>
  /\ newComic = [formData |-> InitialFormData, panelImages |-> <<>>, loading |-> FALSE,
                 error |-> "", pc |-> "idle", submitted |-> <<>>, uploadedUrls |-> <<>>,
                 row |-> <<>>, submits |-> 0, revalidated |-> "",
                 route |-> "/admin/new"]
  /\ supabase \in {[bucket |-> <<>>, rows |-> rows, revalidations |-> 0] :
                     rows \in {<<>>, <<ExistingRow>>}}
  /\ dashboard = <<>>
  /\ upload = <<>>

\* the form can be edited: no submit is in progress (a submit in progress works
\* on the values it has captured) and the page has not been left
Editable == newComic.pc = "idle"

\* handleTitleChange(title)
handleTitleChange(title) ==
  /\ Editable
  /\ newComic' = [newComic EXCEPT !.formData.title = title,
                                  !.formData.slug = generateSlug(title)]
  /\ UNCHANGED <<dirStatus, entries, results, calls, reads, writes, vInput, vResult,
                 request, response, supabase, dashboard, upload>>

\* onChange of the slug, synopsis and tags inputs
ChangeField(field, value) ==
  /\ Editable
  /\ newComic' = [newComic EXCEPT !.formData[field] = value]
  /\ UNCHANGED <<dirStatus, entries, results, calls, reads, writes, vInput, vResult,
                 request, response, supabase, dashboard, upload>>

\* onImagesChange={setPanelImages}
setPanelImages(images) ==
  /\ Editable
  /\ newComic' = [newComic EXCEPT !.panelImages = images]
  /\ UNCHANGED <<dirStatus, entries, results, calls, reads, writes, vInput, vResult,
                 request, response, supabase, dashboard, upload>>

\* The form is submitted (the browser refuses while a required input, title or
\* synopsis, is empty, and the button is disabled while loading): handleSubmit
\* runs up to its first await.
handleSubmit ==
  /\ Editable
  /\ ~newComic.loading
  /\ newComic.submits < MaxSubmits
  /\ newComic.formData.title # <<>>
  /\ newComic.formData.synopsis # <<>>
  /\ newComic' =
       StartUploadsOrInsert(
         [newComic EXCEPT !.loading = TRUE, !.error = "", !.uploadedUrls = <<>>,
                          !.row = <<>>, !.submits = @ + 1,
                          !.submitted = [formData |-> newComic.formData,
                                         panelImages |-> newComic.panelImages]])
  /\ UNCHANGED <<dirStatus, entries, results, calls, reads, writes, vInput, vResult,
                 request, response, supabase, dashboard, upload>>

\* The upload that handleSubmit awaits returns, with an error or without.
UploadReturns(ok) ==
  /\ newComic.pc = "uploading"
  /\ LET i == Len(newComic.uploadedUrls)
         panel == newComic.submitted.panelImages[i + 1]
         filePath == FilePath(newComic.submitted.formData.slug, i, panel.ext)
     IN  IF ok
         THEN /\ supabase' = [supabase EXCEPT
                                !.bucket = Store(@, filePath, panel.id)]
              /\ newComic' = StartUploadsOrInsert(
                               [newComic EXCEPT !.uploadedUrls = Append(@, filePath)])
         ELSE /\ newComic' = SubmitCatch(newComic, "upload failed")
              /\ UNCHANGED supabase
  /\ UNCHANGED <<dirStatus, entries, results, calls, reads, writes, vInput, vResult,
                 request, response, dashboard, upload>>

\* The insert that handleSubmit awaits returns: the table takes the row unless
\* a row of the same slug exists (slug text unique), and the request can fail
\* for other reasons. After a successful insert the revalidation is requested.
InsertReturns(ok) ==
  /\ newComic.pc = "inserting"
  /\ LET row == newComic.row[1]
     IN  IF ok
         THEN /\ \A i \in 1..Len(supabase.rows) : supabase.rows[i].slug # row.slug
              /\ supabase' = [supabase EXCEPT !.rows = Append(@, row),
                                              !.revalidations = @ + 1]
              /\ newComic' = [newComic EXCEPT !.pc = "revalidating"]
         ELSE /\ newComic' = SubmitCatch(newComic, "insert failed")
              /\ UNCHANGED supabase
  /\ UNCHANGED <<dirStatus, entries, results, calls, reads, writes, vInput, vResult,
                 request, response, dashboard, upload>>

\* The revalidation request settles, fulfilled or rejected (.catch(console.error)):
\* router.push('/admin/dashboard').
RevalidateReturns(ok) ==
  /\ newComic.pc = "revalidating"
  /\ newComic' = [newComic EXCEPT !.pc = "navigated", !.route = "/admin/dashboard",
                                  !.revalidated = IF ok THEN "fulfilled" ELSE "rejected"]
  /\ UNCHANGED <<dirStatus, entries, results, calls, reads, writes, vInput, vResult,
                 request, response, supabase, dashboard, upload>>

NextNewComic ==
  \/ \E title \in TitleInputs : handleTitleChange(title)
  \/ \E value \in SlugInputs : ChangeField("slug", value)
  \/ \E value \in SynopsisInputs : ChangeField("synopsis", value)
  \/ \E value \in TagsInputs : ChangeField("tags", value)
  \/ \E images \in PanelLists : setPanelImages(images)
  \/ handleSubmit
  \/ \E ok \in BOOLEAN : UploadReturns(ok)
  \/ \E ok \in BOOLEAN : InsertReturns(ok)
  \/ \E ok \in BOOLEAN : RevalidateReturns(ok)

SpecNewComic == InitNewComic /\ [][NextNewComic]_vars

-----------------------------------------------------------------------------
(* Properties of the NewComic submit, checked under SpecNewComic *)

\* C21 as stated: every row that the submit of the new-comic form inserts has
\* passed validation at write time, that is, it satisfies the Comic Record
\* field constraints (title 1-100 characters, slug of the slug pattern,
\* synopsis 10-300 characters, 1-5 tags of 2-20 characters, positive integer
\* reading time, non-empty cover image).
C21_Original ==
  \A i \in 1..Len(supabase.rows) : ComicRecordConstraints(supabase.rows[i])

\* a form with a slug typed as Hi, a synopsis of 4 characters, no tag and no
\* panel image has been submitted, and its row is in the table
C21_Witness ==
  /\ newComic.pc = "navigated"
  /\ supabase.rows = newComic.row
  /\ newComic.row[1].slug = <<"H", "i">>
  /\ Len(newComic.row[1].synopsis) = 4
  /\ newComic.row[1].tags = <<>>
  /\ newComic.row[1].cover_image_url = <<>>
  /\ ~ComicRecordConstraints(newComic.row[1])

\* the paths of the first n panel images of the submit in progress
PanelPaths(n) ==
  [k \in 1..n |-> FilePath(newComic.submitted.formData.slug, k - 1,
                           newComic.submitted.panelImages[k].ext)]

\* where a submit stands, in every state
SubmitState ==
  /\ newComic.submits > 0 =>
       /\ Len(newComic.uploadedUrls) <= Len(newComic.submitted.panelImages)
       /\ newComic.uploadedUrls = PanelPaths(Len(newComic.uploadedUrls))
       /\ \A k \in 1..Len(newComic.uploadedUrls) :
            /\ newComic.uploadedUrls[k] \in DOMAIN supabase.bucket
            /\ supabase.bucket[newComic.uploadedUrls[k]] = newComic.submitted.panelImages[k].id
  /\ newComic.pc \in {"inserting", "revalidating", "navigated"} =>
       /\ Len(newComic.uploadedUrls) = Len(newComic.submitted.panelImages)
       /\ newComic.row = <<InsertedRow(newComic.submitted.formData, newComic.uploadedUrls)>>
  /\ newComic.pc \in {"revalidating", "navigated"} =>
       /\ supabase.rows # <<>>
       /\ supabase.rows[Len(supabase.rows)] = newComic.row[1]
  /\ newComic.pc = "idle" /\ newComic.submits > 0 =>
       /\ ~newComic.loading
       /\ newComic.error \in {"upload failed", "insert failed"}
  /\ newComic.pc \in {"uploading", "inserting", "revalidating"} => newComic.loading
  /\ (newComic.route = "/admin/dashboard") = (newComic.pc = "navigated")

\* what one step of a submit may do
SubmitStep ==
  /\ supabase'.bucket # supabase.bucket =>
       /\ newComic.pc = "uploading"
       /\ supabase'.bucket =
            Store(supabase.bucket, PanelPaths(Len(newComic.uploadedUrls) + 1)[
                                     Len(newComic.uploadedUrls) + 1],
                  newComic.submitted.panelImages[Len(newComic.uploadedUrls) + 1].id)
       /\ Len(newComic'.uploadedUrls) = Len(newComic.uploadedUrls) + 1
  /\ supabase'.rows # supabase.rows =>
       /\ newComic.pc = "inserting"
       /\ supabase'.rows = Append(supabase.rows, newComic.row[1])
       /\ newComic'.pc = "revalidating"
  /\ supabase'.revalidations # supabase.revalidations =>
       /\ supabase'.rows # supabase.rows
       /\ supabase'.revalidations = supabase.revalidations + 1
  /\ newComic'.route # newComic.route => newComic.pc = "revalidating"
  /\ newComic.pc \in {"uploading", "inserting"} /\ newComic'.pc = "idle" =>
       /\ supabase' = supabase
       /\ newComic'.uploadedUrls = newComic.uploadedUrls
  /\ newComic.pc = "revalidating" => newComic'.pc = "navigated"

\* C27: the submit of the new-comic form runs its steps in sequence, without
\* retry or rollback: the panel images are uploaded one at a time in list
\* order, the row is inserted only after every upload has succeeded, the
\* revalidation is requested only with a successful insert, the dashboard is
\* navigated to only after that, whether the revalidation request succeeds or
\* not; after a failed upload or insert no later step runs, the error message
\* is shown, loading is false again and the images uploaded so far are still
\* in the bucket.
C27_SubmitSequence == []SubmitState /\ [][SubmitStep]_vars

\* two panel images were uploaded, the row was inserted, the revalidation
\* request failed and the dashboard was navigated to
C27_Witness ==
  /\ newComic.pc = "navigated"
  /\ newComic.revalidated = "rejected"
  /\ Len(newComic.uploadedUrls) = 2
  /\ DOMAIN supabase.bucket = {newComic.uploadedUrls[1], newComic.uploadedUrls[2]}
  /\ supabase.rows[Len(supabase.rows)].cover_image_url = CoverImageUrl(newComic.uploadedUrls)
  /\ newComic.loading

-----------------------------------------------------------------------------
(* app/admin/dashboard: AdminDashboard *)

RECURSIVE WithoutId(_, _)
\* comics.filter((c) => c.id !== id)
WithoutId(comics, id) ==
  IF comics = <<>> THEN <<>>
  ELSE (IF Head(comics).id # id THEN <<Head(comics)>> ELSE <<>>) \o WithoutId(Tail(comics), id)

\* the number of rows of the largest table tried
MaxRows == 3

\* the number of deletes started in one visit of the dashboard
MaxDeletes == 3

\* the rows of a table of n comics, as the select of fetchComics orders them
TableRows(n) == [k \in 1..n |-> [id |-> k]]

InitDashboard ==
  /\ dirStatus = "ok"
  /\ entries = Dir({})
  /\ results = NoCalls
  /\ calls = 0
  /\ reads = 0
  /\ writes = 0
  /\ vInput = ValidMetadata
  /\ vResult = <<>>
  /\ request = <<>>
  /\ response = <<>>
  /\ newComic = <<>>
  /\ supabase \in {[bucket |-> <<>>, rows |-> TableRows(n), revalidations |-> 0] :
                     n \in 0..MaxRows}
  /\ dashboard = [comics |-> <<>>, loading |-> TRUE, fetched |-> <<>>, deleting |-> {},
                  started |-> 0, succeeded |-> {}, failed |-> {}]
  /\ upload = <<>>

\* The select of fetchComics returns: with the rows, or with no data.
fetchComics(ok) ==
  /\ dashboard.loading
  /\ dashboard' = [dashboard EXCEPT !.loading = FALSE,
                                    !.comics = IF ok THEN supabase.rows ELSE @,
                                    !.fetched = IF ok THEN supabase.rows ELSE @]
  /\ UNCHANGED <<dirStatus, entries, results, calls, reads, writes, vInput, vResult,
                 request, response, newComic, supabase, upload>>

\* The delete button of a displayed comic is clicked: handleDelete runs up to
\* its await, holding the list of the render the click was made in.
handleDelete(id) ==
  /\ ~dashboard.loading
  /\ dashboard.started < MaxDeletes
  /\ \E i \in 1..Len(dashboard.comics) : dashboard.comics[i].id = id
  /\ dashboard' = [dashboard EXCEPT
                     !.deleting = @ \cup {[id |-> id, comics |-> dashboard.comics]},
                     !.started = @ + 1]
  /\ UNCHANGED <<dirStatus, entries, results, calls, reads, writes, vInput, vResult,
                 request, response, newComic, supabase, upload>>

\* The delete that a handleDelete awaits returns. Without error the row is
\* gone from the table, the list is set from the list that the handler holds,
\* and the revalidation is requested; with an error the list is left as it is.
DeleteReturns(call, ok) ==
  /\ call \in dashboard.deleting
  /\ IF ok
     THEN /\ supabase' = [supabase EXCEPT !.rows = WithoutId(@, call.id),
                                          !.revalidations = @ + 1]
          /\ dashboard' = [dashboard EXCEPT !.deleting = @ \ {call},
                                            !.comics = WithoutId(call.comics, call.id),
                                            !.succeeded = @ \cup {call.id}]
     ELSE /\ UNCHANGED supabase
          /\ dashboard' = [dashboard EXCEPT !.deleting = @ \ {call},
                                            !.failed = @ \cup {call.id}]
  /\ UNCHANGED <<dirStatus, entries, results, calls, reads, writes, vInput, vResult,
                 request, response, newComic, upload>>

NextDashboard ==
  \/ \E ok \in BOOLEAN : fetchComics(ok)
  \/ \E id \in 1..MaxRows : handleDelete(id)
  \/ \E call \in dashboard.deleting, ok \in BOOLEAN : DeleteReturns(call, ok)

SpecDashboard == InitDashboard /\ [][NextDashboard]_vars

RECURSIVE WithoutIds(_, _)
\* the comics of the list whose id is not in ids
WithoutIds(comics, ids) ==
  IF comics = <<>> THEN <<>>
  ELSE (IF Head(comics).id \notin ids THEN <<Head(comics)>> ELSE <<>>)
       \o WithoutIds(Tail(comics), ids)

\* C28 as stated: in the admin dashboard, however the deletes interleave, the
\* displayed list is the fetched list without exactly the comics whose
\* delete succeeded: a deleted comic never reappears and a comic whose delete
\* failed stays.
C28_Original == dashboard.comics = WithoutIds(dashboard.fetched, dashboard.succeeded)

\* two deletes were started in the same render and both succeeded: the comic
\* deleted first is displayed again, and its row is gone
C28_Witness ==
  /\ dashboard.deleting = {}
  /\ dashboard.succeeded = {1, 2}
  /\ dashboard.failed = {}
  /\ \E i \in 1..Len(dashboard.comics) : dashboard.comics[i].id \in dashboard.succeeded
  /\ \A i \in 1..Len(supabase.rows) : supabase.rows[i].id \notin dashboard.succeeded

-----------------------------------------------------------------------------
(* components/admin: MultiImageUpload *)

\* the maxImages prop (20 by default and in the NewComic form), taken small
maxImages == 3

\* the number of file selections of one visit of the form
MaxSelections == 2

\* fileArray without the slice
FileArrayUncut(files, images) == files

\* Array.from(files).slice(0, maxImages - images.length)
FileArray(files, images) == Slice(files, 0, maxImages - Len(images))

\* arrayMove(items, oldIndex, newIndex) of @dnd-kit/sortable, indices from 0
arrayMove(items, oldIndex, newIndex) ==
  LET item == items[oldIndex + 1]
      rest == SubSeq(items, 1, oldIndex) \o SubSeq(items, oldIndex + 2, Len(items))
  IN  SubSeq(rest, 1, newIndex) \o <<item>> \o SubSeq(rest, newIndex + 1, Len(rest))

\* images.filter((img) => img.id !== id)
WithoutImage(images, id) == WithoutId(images, id)

\* items.findIndex((i) => i.id === id), for an id of the list
IndexOfImage(items, id) == MinOf({i \in 1..Len(items) : items[i].id = id}) - 1

InitUpload ==
  /\ dirStatus = "ok"
  /\ entries = Dir({})
  /\ results = NoCalls
  /\ calls = 0
  /\ reads = 0
  /\ writes = 0
  /\ vInput = ValidMetadata
  /\ vResult = <<>>
  /\ request = <<>>
  /\ response = <<>>
  /\ newComic = <<>>
  /\ supabase = <<>>
  /\ dashboard = <<>>
  /\ upload = [images |-> <<>>, uploading |-> FALSE, compressing |-> <<>>,
               panelImages |-> <<>>, selections |-> 0]

\* Files are chosen in the file input, which is disabled while uploading and
\* when the list is full: handleFiles runs up to its first await. It holds the
\* list of the render the choice was made in; the id of an image is the time
\* of its compression and its index in the selection.
handleFiles(count) ==
  /\ ~upload.uploading
  /\ Len(upload.images) < maxImages
  /\ upload.selections < MaxSelections
  /\ LET files == [i \in 1..count |-> [id |-> <<upload.selections + 1, i - 1>>]]
     IN  upload' = [upload EXCEPT
                      !.uploading = TRUE,
                      !.selections = @ + 1,
                      !.compressing = <<[images |-> upload.images,
                                         fileArray |-> FileArray(files, upload.images)]>>]
  /\ UNCHANGED <<dirStatus, entries, results, calls, reads, writes, vInput, vResult,
                 request, response, newComic, supabase, dashboard>>

\* The compressions that handleFiles awaits are done: the new images are put
\* after the list that the handler holds.
handleFilesDone ==
  /\ upload.compressing # <<>>
  /\ LET updatedImages == upload.compressing[1].images \o upload.compressing[1].fileArray
     IN  upload' = [upload EXCEPT !.images = updatedImages,
                                  !.panelImages = updatedImages,
                                  !.uploading = FALSE,
                                  !.compressing = <<>>]
  /\ UNCHANGED <<dirStatus, entries, results, calls, reads, writes, vInput, vResult,
                 request, response, newComic, supabase, dashboard>>

\* removeImage(id), from the remove button of a displayed image
removeImage(id) ==
  /\ \E i \in 1..Len(upload.images) : upload.images[i].id = id
  /\ LET updatedImages == WithoutImage(upload.images, id)
     IN  upload' = [upload EXCEPT !.images = updatedImages, !.panelImages = updatedImages]
  /\ UNCHANGED <<dirStatus, entries, results, calls, reads, writes, vInput, vResult,
                 request, response, newComic, supabase, dashboard>>

\* handleDragEnd: the image active is dropped over the image over
handleDragEnd(active, over) ==
  /\ \E i \in 1..Len(upload.images) : upload.images[i].id = active
  /\ \E i \in 1..Len(upload.images) : upload.images[i].id = over
  /\ active # over
  /\ LET newOrder == arrayMove(upload.images, IndexOfImage(upload.images, active),
                               IndexOfImage(upload.images, over))
     IN  upload' = [upload EXCEPT !.images = newOrder, !.panelImages = newOrder]
  /\ UNCHANGED <<dirStatus, entries, results, calls, reads, writes, vInput, vResult,
                 request, response, newComic, supabase, dashboard>>

\* the ids an image can have
ImageIds == (1..MaxSelections) \X (0..maxImages)

NextUpload ==
  \/ \E count \in 1..(maxImages + 1) : handleFiles(count)
  \/ handleFilesDone
  \/ \E id \in ImageIds : removeImage(id)
  \/ \E active, over \in ImageIds : handleDragEnd(active, over)

SpecUpload == InitUpload /\ [][NextUpload]_vars

\* both lists hold the same images, each as often
SameImages(a, b) ==
  /\ Len(a) = Len(b)
  /\ \A x \in Elements(a) \cup Elements(b) :
       Cardinality({i \in 1..Len(a) : a[i] = x}) = Cardinality({i \in 1..Len(b) : b[i] = x})

\* C30: in MultiImageUpload, however files are added, images removed and
\* images dragged, the list never holds more than maxImages images, a drag
\* only permutes the list, and the list last reported to the parent form
\* through onImagesChange is the list of the component.
C30_PanelList ==
  [][/\ Len(upload'.images) <= maxImages
     /\ upload'.panelImages = upload'.images
     /\ (\E active, over \in ImageIds : handleDragEnd(active, over)) =>
          /\ SameImages(upload.images, upload'.images)
          /\ upload'.images # upload.images]_vars

\* the list is full with the images of one selection, the second of them was
\* dragged before the first, and the parent holds the same list
C30_Witness ==
  /\ Len(upload.images) = maxImages
  /\ ~upload.uploading
  /\ upload.images[1].id = <<1, 1>>
  /\ upload.images[2].id = <<1, 0>>
  /\ upload.panelImages = upload.images

-----------------------------------------------------------------------------
(* components/archive: ArchiveFilters, and app/archive: ArchivePage *)

\* the serialisation of one character by URLSearchParams.toString()
\* (application/x-www-form-urlencoded)
PercentEncodeChar(ch) ==
  CASE ch = " " -> <<"+">>
    [] ch = "%" -> <<"%", "2", "5">>
    [] ch = "&" -> <<"%", "2", "6">>
    [] ch = "+" -> <<"%", "2", "B">>
    [] ch = "," -> <<"%", "2", "C">>
    [] ch = "=" -> <<"%", "3", "D">>
    [] OTHER -> <<ch>>

RECURSIVE PercentEncode(_)
PercentEncode(text) ==
  IF text = <<>> THEN <<>> ELSE PercentEncodeChar(Head(text)) \o PercentEncode(Tail(text))

\* the character of a percent escape, the escape itself when it is none
PercentEscape(hex) ==
  CASE hex = <<"2", "5">> -> <<"%">>
    [] hex = <<"2", "6">> -> <<"&">>
    [] hex = <<"2", "B">> -> <<"+">>
    [] hex = <<"2", "C">> -> <<",">>
    [] hex = <<"3", "D">> -> <<"=">>
    [] OTHER -> <<"%">> \o hex

RECURSIVE PercentDecode(_)
\* the parsing of a name or value by URLSearchParams
PercentDecode(text) ==
  IF text = <<>> THEN <<>>
  ELSE IF Head(text) = "+" THEN <<" ">> \o PercentDecode(Tail(text))
  ELSE IF Head(text) = "%" /\ Len(text) >= 3
  THEN PercentEscape(SubSeq(text, 2, 3)) \o PercentDecode(SubSeq(text, 4, Len(text)))
  ELSE <<Head(text)>> \o PercentDecode(Tail(text))

\* one name=value part of a query string
ParsePair(part) ==
  LET eq == {i \in 1..Len(part) : part[i] = "="}
      k == IF eq = {} THEN Len(part) + 1 ELSE MinOf(eq)
  IN  [name |-> PercentDecode(SubSeq(part, 1, k - 1)),
       value |-> PercentDecode(SubSeq(part, k + 1, Len(part)))]

\* new URLSearchParams(query): the list of its name-value pairs
URLSearchParams(query) ==
  LET parts == NonEmpty(Split(query, "&"))
  IN  [i \in 1..Len(parts) |-> ParsePair(parts[i])]

RECURSIVE ParamsToString(_)
\* params.toString()
ParamsToString(params) ==
  IF params = <<>> THEN <<>>
  ELSE PercentEncode(Head(params).name) \o <<"=">> \o PercentEncode(Head(params).value)
       \o (IF Len(params) > 1 THEN <<"&">> ELSE <<>>) \o ParamsToString(Tail(params))

\* params.get(name): <<value>> of the first pair of the name, <<>> for null
ParamsGet(params, name) ==
  LET at == {i \in 1..Len(params) : params[i].name = name}
  IN  IF at = {} THEN <<>> ELSE <<params[MinOf(at)].value>>

RECURSIVE ParamsDelete(_, _)
\* params.delete(name)
ParamsDelete(params, name) ==
  IF params = <<>> THEN <<>>
  ELSE (IF Head(params).name = name THEN <<>> ELSE <<Head(params)>>)
       \o ParamsDelete(Tail(params), name)

\* params.set(name, value): the first pair of the name takes the value and the
\* others go; without such a pair one is appended
ParamsSet(params, name, value) ==
  LET at == {i \in 1..Len(params) : params[i].name = name}
  IN  IF at = {} THEN Append(params, [name |-> name, value |-> value])
      ELSE SubSeq(params, 1, MinOf(at) - 1) \o <<[name |-> name, value |-> value]>>
           \o ParamsDelete(SubSeq(params, MinOf(at) + 1, Len(params)), name)

RECURSIVE JoinWith(_, _)
\* tags.join(sep)
JoinWith(strs, sep) ==
  IF strs = <<>> THEN <<>>
  ELSE Head(strs) \o (IF Len(strs) > 1 THEN sep ELSE <<>>) \o JoinWith(Tail(strs), sep)

TagsName == <<"t", "a", "g", "s">>

\* searchParams.get('tags')?.split(',').filter(Boolean) || []
activeTags(query) ==
  LET tags == ParamsGet(URLSearchParams(query), TagsName)
  IN  IF tags = <<>> THEN <<>> ELSE NonEmpty(Split(tags[1], ","))

RECURSIVE WithoutString(_, _)
\* activeTags.filter((t) => t !== tag)
WithoutString(strs, str) ==
  IF strs = <<>> THEN <<>>
  ELSE (IF Head(strs) # str THEN <<Head(strs)>> ELSE <<>>) \o WithoutString(Tail(strs), str)

\* updateURL(tags): the query of the URL that is navigated to
updateURL(query, tags) ==
  LET params == URLSearchParams(query)
  IN  ParamsToString(IF Len(tags) > 0 THEN ParamsSet(params, TagsName, JoinWith(tags, <<",">>))
                     ELSE ParamsDelete(params, TagsName))

\* the query toggleTag(tag) navigates to
toggleTagURL(query, tag) ==
  updateURL(query, IF InSeq(activeTags(query), tag) THEN WithoutString(activeTags(query), tag)
                   ELSE Append(activeTags(query), tag))

RECURSIVE FilterByEveryTag(_, _)
\* a filter that keeps the comics holding every active tag
FilterByEveryTag(comics, tags) ==
  IF comics = <<>> THEN <<>>
  ELSE (IF \A i \in 1..Len(tags) : InSeq(Tags(Head(comics)), tags[i])
        THEN <<Head(comics)>> ELSE <<>>) \o FilterByEveryTag(Tail(comics), tags)

RECURSIVE FilterBySomeTag(_, _)
\* allComics.filter((comic) => activeTags.some((tag) => comic.frontmatter.tags.includes(tag)))
FilterBySomeTag(comics, tags) ==
  IF comics = <<>> THEN <<>>
  ELSE (IF \E i \in 1..Len(tags) : InSeq(Tags(Head(comics)), tags[i])
        THEN <<Head(comics)>> ELSE <<>>) \o FilterBySomeTag(Tail(comics), tags)

\* ArchivePage({ searchParams }) for the outcome all of getAllComics(): the
\* page with the filter component it contains, or the error it fails with
ArchivePage(query, all) ==
  IF all.state = "rejected" THEN [kind |-> "error", message |-> MessageOf(all)]
  ELSE [kind |-> "page",
        allTags |-> getAllTags(all).value,
        activeTags |-> activeTags(query),
        filteredComics |-> IF Len(activeTags(query)) > 0
                           THEN FilterBySomeTag(all.value, activeTags(query))
                           ELSE all.value,
        filters |-> [allTags |-> getAllTags(all).value, activeTags |-> activeTags(query)]]

-----------------------------------------------------------------------------
(* The archive page and its filters as a state machine *)

\* the number of navigations made with the filters in one visit
MaxNavigations == 3

TagCommaB == <<"a", ",", "b">>

TagCPlus == <<"c", "+">>

\* the comics of the archive: slug and tags
ArchiveRecord(slug, tags) ==
  [frontmatter |-> Frontmatter(slug, Date0101, tags), slug |-> slug]

ArchiveCollections ==
  {Fulfilled(SortComics(<<ArchiveRecord(<<"a">>, <<TagFun>>),
                          ArchiveRecord(<<"b">>, <<TagCats, TagCPlus>>),
                          ArchiveRecord(<<"c">>, <<TagFun, TagCats>>),
                          ArchiveRecord(<<"d">>, <<TagCommaB>>)>>)),
   Fulfilled(<<>>),
   Rejected(<<"Failed to retrieve comics: ", "Directory not found: ",
              Join(COMICS_DIRECTORY)>>)}

\* the queries of the URLs the archive is entered with
ArchiveQueries ==
  {<<>>,
   TagsName \o <<"=">> \o TagFun,
   TagsName \o <<"=">> \o TagFun \o <<",">> \o TagFun \o <<",", ",">> \o TagCats,
   <<"p", "=", "2", "&">> \o TagsName \o <<"=">> \o TagCats \o <<"%", "2", "C">> \o TagNone}

InitArchive ==
  /\ dirStatus = "ok"
  /\ entries = Dir({})
  /\ results = NoCalls
  /\ calls = 0
  /\ reads = 0
  /\ writes = 0
  /\ vInput = ValidMetadata
  /\ vResult = <<>>
  /\ request \in {[query |-> q, all |-> all, navigations |-> 0] :
                    q \in ArchiveQueries, all \in ArchiveCollections}
  /\ response = <<>>
  /\ newComic = <<>>
  /\ supabase = <<>>
  /\ dashboard = <<>>
  /\ upload = <<>>

\* The archive page is rendered for the URL of the request.
RenderArchive ==
  /\ response = <<>>
  /\ response' = <<ArchivePage(request.query, request.all)>>
  /\ UNCHANGED <<dirStatus, entries, results, calls, reads, writes, vInput, vResult, request,
                 newComic, supabase, dashboard, upload>>

\* toggleTag(tag), from the badge of an available tag: router.push
toggleTag(tag) ==
  /\ response # <<>>
  /\ response[1].kind = "page"
  /\ InSeq(response[1].filters.allTags, tag)
  /\ request.navigations < MaxNavigations
  /\ request' = [request EXCEPT !.query = toggleTagURL(request.query, tag),
                                !.navigations = @ + 1]
  /\ response' = <<>>
  /\ UNCHANGED <<dirStatus, entries, results, calls, reads, writes, vInput, vResult,
                 newComic, supabase, dashboard, upload>>

\* clearFilters, from the button shown while a filter is active: router.push
clearFilters ==
  /\ response # <<>>
  /\ response[1].kind = "page"
  /\ Len(response[1].filters.activeTags) > 0
  /\ request.navigations < MaxNavigations
  /\ request' = [request EXCEPT !.query = updateURL(request.query, <<>>),
                                !.navigations = @ + 1]
  /\ response' = <<>>
  /\ UNCHANGED <<dirStatus, entries, results, calls, reads, writes, vInput, vResult,
                 newComic, supabase, dashboard, upload>>

AvailableTags == {TagFun, TagCats, TagCPlus, TagCommaB}

NextArchive ==
  \/ RenderArchive
  \/ \E tag \in AvailableTags : toggleTag(tag)
  \/ clearFilters

SpecArchive == InitArchive /\ [][NextArchive]_vars

\* the set of the active tags a query is parsed to
ActiveSet(query) == {activeTags(query)[i] : i \in 1..Len(activeTags(query))}

\* the set A with only the membership of tag flipped
Flipped(A, tag) == IF tag \in A THEN A \ {tag} ELSE A \cup {tag}

\* C23 as stated: the tag filters and the URL stay synchronized. toggleTag(t)
\* navigates to a URL whose parsed active set is the current active set with
\* only the membership of t flipped (so toggling twice restores it),
\* clearFilters navigates to a URL without a tags parameter, and the page
\* parses the same active set from a URL as the filter component.
C23_Original ==
  [][/\ \A tag \in AvailableTags :
          toggleTag(tag) => ActiveSet(request'.query) = Flipped(ActiveSet(request.query), tag)
     /\ clearFilters => ParamsGet(URLSearchParams(request'.query), TagsName) = <<>>
     /\ RenderArchive /\ response'[1].kind = "page"
          => response'[1].activeTags = response'[1].filters.activeTags]_vars

\* the tag "a,b" of a comic was toggled on from the unfiltered archive: the
\* URL carries tags=a%2Cb, and the page shows the filters a and b as active and
\* no comic, although a comic has the tag
C23_Witness ==
  /\ request.navigations = 1
  /\ request.query = TagsName \o <<"=", "a", "%", "2", "C", "b">>
  /\ response # <<>>
  /\ response[1].kind = "page"
  /\ InSeq(response[1].allTags, TagCommaB)
  /\ response[1].activeTags = <<<<"a">>, <<"b">>>>
  /\ response[1].filteredComics = <<>>

\* C24: the archive page shows, when a tag is active, exactly the comics of
\* getAllComics() whose tags contain at least one active tag, in the order of
\* getAllComics(), each once; with no active tag it shows all comics.
C24_ArchiveFilter ==
  response # <<>> /\ response[1].kind = "page" =>
    LET all == request.all.value
        A == ActiveSet(request.query)
        shown == response[1].filteredComics
        keep == {i \in 1..Len(all) : \E t \in A : InSeq(Tags(all[i]), t)}
    IN  IF A = {} THEN shown = all
        ELSE /\ {shown[k] : k \in 1..Len(shown)} = {all[i] : i \in keep}
             /\ Len(shown) = Cardinality(keep)
             /\ \A k, l \in 1..Len(shown) :
                  k < l => \E i, j \in keep : i < j /\ all[i] = shown[k] /\ all[j] = shown[l]

\* two different tags are active; a comic with only one of them is shown and
\* a comic with neither is not
C24_Witness ==
  /\ response # <<>>
  /\ response[1].kind = "page"
  /\ ActiveSet(request.query) = {TagFun, TagCats}
  /\ Len(response[1].filteredComics) = 3
  /\ Len(request.all.value) = 4
  /\ \E k \in 1..3 : Tags(response[1].filteredComics[k]) = <<TagFun>>

-----------------------------------------------------------------------------
(* app/sitemap *)

ArchivePath == <<"/", "a", "r", "c", "h", "i", "v", "e">>

\* staticPages; clock holds the instants of the two new Date(); a priority
\* is held in tenths
StaticPages(clock) ==
  <<[url |-> SITE_URL, lastModified |-> clock[1], changeFrequency |-> "daily",
     priority |-> 10],
    [url |-> SITE_URL \o ArchivePath, lastModified |-> clock[2],
     changeFrequency |-> "daily", priority |-> 8]>>

\* the sitemap entry of one comic
comicPage(comic) ==
  [url |-> SITE_URL \o ComicsPath \o comic.slug,
   lastModified |-> DateGetTime(PublishDate(comic)),
   changeFrequency |-> "monthly", priority |-> 7]

\* a sitemap() without the catch block
sitemapRethrowing(all, clock) ==
  IF all.state = "rejected" THEN Rejected(MessageOf(all))
  ELSE Fulfilled(StaticPages(clock) \o [i \in 1..Len(all.value) |-> comicPage(all.value[i])])

\* sitemap() for the outcome all of getAllComics()
sitemap(all, clock) ==
  IF all.state = "rejected" THEN Fulfilled(StaticPages(clock))
  ELSE Fulfilled(StaticPages(clock) \o [i \in 1..Len(all.value) |-> comicPage(all.value[i])])

-----------------------------------------------------------------------------
(* The reads of the content directory as a state machine: one call of
   getAllComics(), of parseMDXFile(filePath) or of sitemap() on a store *)

\* the instant of the first new Date() of a sitemap() call
Now == [DateGetTime(Date0301) EXCEPT !.sec = @ + 86400]

\* the instants of the two new Date() of one call: the same millisecond, or
\* the second one later
Clocks == {<<Now, Now>>, <<Now, [Now EXCEPT !.ms = @ + 1]>>}

\* the paths parseMDXFile is called with
FilePaths == {PathJoin(COMICS_DIRECTORY, e.name) : e \in Catalog}

InitRead == InitHome

\* getAllComics() is called and settles
ReadComics ==
  /\ response = <<>>
  /\ \E all \in GetAllComicsNow : response' = <<[op |-> "getAllComics", result |-> all]>>
  /\ UNCHANGED <<dirStatus, entries, results, calls, reads, writes, vInput, vResult, request,
                 newComic, supabase, dashboard, upload>>

\* parseMDXFile(filePath) is called and settles
ParseFile(filePath) ==
  /\ response = <<>>
  /\ response' = <<[op |-> "parseMDXFile", filePath |-> filePath,
                    result |-> parseMDXFile(Visible(dirStatus, entries), filePath)]>>
  /\ UNCHANGED <<dirStatus, entries, results, calls, reads, writes, vInput, vResult, request,
                 newComic, supabase, dashboard, upload>>

\* sitemap() is called and settles; comics is the outcome of its getAllComics()
GenerateSitemap(clock) ==
  /\ response = <<>>
  /\ \E all \in GetAllComicsNow :
       response' = <<[op |-> "sitemap", comics |-> all, result |-> sitemap(all, clock)]>>
  /\ UNCHANGED <<dirStatus, entries, results, calls, reads, writes, vInput, vResult, request,
                 newComic, supabase, dashboard, upload>>

NextRead ==
  \/ ReadComics
  \/ \E filePath \in FilePaths : ParseFile(filePath)
  \/ \E clock \in Clocks : GenerateSitemap(clock)

SpecRead == InitRead /\ [][NextRead]_vars

\* C25: sitemap() does not fail. It returns the home entry and the archive
\* entry, followed, when getAllComics() succeeds, by exactly one entry for each
\* comic of its list, in the order of the list, with the URL
\* <site>/comics/<slug>, the instant of the publishDate of the comic as
\* lastModified and a priority between 0 and 1; when getAllComics() fails it
\* returns the two static entries and nothing else.
C25_Sitemap ==
  (response # <<>> /\ response[1].op = "sitemap") =>
    LET all == response[1].comics
        out == response[1].result
    IN  /\ out.state = "fulfilled"
        /\ Len(out.value) >= 2
        /\ out.value[1].url = SITE_URL
        /\ out.value[2].url = SITE_URL \o ArchivePath
        /\ all.state = "rejected" => Len(out.value) = 2
        /\ all.state = "fulfilled" =>
             /\ Len(out.value) = 2 + Len(all.value)
             /\ \A i \in 1..Len(all.value) :
                  /\ out.value[2 + i].url = SITE_URL \o ComicsPath \o all.value[i].slug
                  /\ out.value[2 + i].lastModified = Instant(all.value[i])
                  /\ out.value[2 + i].priority \in 0..10

\* the sitemap of a collection of two comics: four entries, the third one
\* for the comic c
C25_Witness ==
  /\ response # <<>>
  /\ response[1].op = "sitemap"
  /\ response[1].comics.state = "fulfilled"
  /\ Len(response[1].comics.value) = 2
  /\ Len(response[1].result.value) = 4
  /\ response[1].result.value[3].url = SITE_URL \o ComicsPath \o <<"c">>
  /\ response[1].result.value[3].lastModified = DateGetTime(Date0301)

\* the regular .mdx files of the directory that cannot be read
LockedNames == {n \in MdxNames : entries[n].read = "EACCES"}

\* C22: a content directory that is missing and one that cannot be read for
\* lack of permission make getAllComics() fail with different messages, the
\* first naming the directory as not found, the second naming it as
\* unreadable with the permission error; a content file that is missing and
\* one that cannot be read make parseMDXFile() fail with "Comic file not
\* found" and "Permission denied reading file", each with the path, and
\* getAllComics() fails on a file without read permission (with that message
\* when no other file fails). None of them is an empty collection.
C22_DistinctErrors ==
  response # <<>> =>
    LET r == response[1]
        dir == Join(COMICS_DIRECTORY)
    IN  /\ (r.op = "getAllComics" /\ dirStatus = "ENOENT") =>
             r.result = Rejected(<<"Failed to retrieve comics: ", "Directory not found: ", dir>>)
        /\ (r.op = "getAllComics" /\ dirStatus = "EACCES") =>
             r.result = Rejected(<<"Failed to retrieve comics: ", "Error reading directory ",
                                   dir, ": ", "EACCES: permission denied, scandir ", dir>>)
        /\ (r.op = "getAllComics" /\ dirStatus = "ok" /\ LockedNames # {}) =>
             /\ r.result.state = "rejected"
             /\ (\A n \in MdxNames \ LockedNames : Parseable(PathJoin(COMICS_DIRECTORY, n))) =>
                  \E n \in LockedNames :
                    r.result.message = <<"Failed to retrieve comics: ",
                                         "Permission denied reading file: ",
                                         Join(PathJoin(COMICS_DIRECTORY, n))>>
        /\ (r.op = "parseMDXFile"
              /\ (dirStatus = "ENOENT" \/ EntryName(r.filePath) \notin DOMAIN entries)) =>
             r.result = Rejected(<<"Comic file not found: ", Join(r.filePath)>>)
        /\ (r.op = "parseMDXFile" /\ dirStatus # "ENOENT"
              /\ EntryName(r.filePath) \in DOMAIN entries
              /\ entries[EntryName(r.filePath)].kind = "file"
              /\ (dirStatus = "EACCES" \/ entries[EntryName(r.filePath)].read = "EACCES")) =>
             r.result = Rejected(<<"Permission denied reading file: ", Join(r.filePath)>>)

\* the directory can be listed and holds a.mdx and a 2024-03-c.mdx without
\* read permission: getAllComics() fails with the permission error of the file
C22_Witness ==
  /\ response # <<>>
  /\ response[1].op = "getAllComics"
  /\ dirStatus = "ok"
  /\ entries = Dir({FileA, FileCLocked})
  /\ response[1].result =
       Rejected(<<"Failed to retrieve comics: ", "Permission denied reading file: ",
                  Join(PathJoin(COMICS_DIRECTORY, NameC))>>)

\* the record getAllComics() makes of the regular .mdx file named n
RecordOf(n) ==
  [frontmatter |-> validateFrontmatter(entries[n].data).data,
   slug |-> extractSlugFromFilename(PathJoin(COMICS_DIRECTORY, n))]

\* C29: getAllComics() succeeds when the directory can be listed and every
\* regular .mdx file can be read and validated; the list it returns then holds
\* exactly one record for each regular .mdx file (directories and files of
\* other extensions give none); and when the slugs of the list are pairwise
\* different, every order in which the files may be listed gives this list.
C29_OneRecordPerFile ==
  (response # <<>> /\ response[1].op = "getAllComics") =>
    LET all == response[1].result
    IN  /\ (dirStatus = "ok"
              /\ \A n \in MdxNames : Parseable(PathJoin(COMICS_DIRECTORY, n)))
             => all.state = "fulfilled"
        /\ all.state = "fulfilled" =>
             /\ dirStatus = "ok"
             /\ \E q \in Orderings(MdxNames) :
                  all.value = [i \in 1..Len(q) |-> RecordOf(q[i])]
             /\ (\A i, j \in 1..Len(all.value) :
                   all.value[i].slug = all.value[j].slug => i = j)
                  => \A other \in GetAllComicsNow : other = all

\* a directory with two regular .mdx files and a directory named old.mdx:
\* two records, c before a
C29_Witness ==
  /\ response # <<>>
  /\ response[1].op = "getAllComics"
  /\ entries = Dir({FileC, FileA, DirOld})
  /\ response[1].result.state = "fulfilled"
  /\ Slugs(response[1].result.value) = <<<<"c">>, <<"a">>>>

-----------------------------------------------------------------------------
(* app/api/revalidate: POST *)

\* A request body. kind "unparsable": request.json() rejects; otherwise the
\* kind of the JSON value, with the value of its secret property for an
\* object (<<>> when it has none)
Body(kind, secret) == [kind |-> kind, secret |-> secret]

\* const { secret } = await request.json(): <<>> for undefined
SecretOf(body) == IF body.kind = "object" THEN body.secret ELSE <<>>

\* secret !== process.env.REVALIDATION_SECRET; env is <<>> when the variable
\* is not set
SecretDiffers(secret, env) ==
  IF secret = <<>> \/ env = <<>> THEN secret # env
  ELSE secret[1].t # "string" \/ secret[1].s # env[1]

RootPath == <<"/">>

\* POST(request) with the environment env: the response and the paths given
\* to revalidatePath
POST(body, env) ==
  IF body.kind \in {"unparsable", "null"}
  THEN [status |-> 500, error |-> "Error revalidating", revalidated |-> <<>>]
  ELSE IF SecretDiffers(SecretOf(body), env)
  THEN [status |-> 401, error |-> "Invalid secret", revalidated |-> <<>>]
  ELSE [status |-> 200, error |-> "", revalidated |-> <<RootPath, ArchivePath>>]

-----------------------------------------------------------------------------
(* The revalidation endpoint as a state machine *)

\* the number of requests served
MaxRequests == 3

SecretA == <<"s", "3", "c", "r", "e", "t">>

SecretB == <<"g", "u", "e", "s", "s">>

Bodies ==
  {Body("unparsable", <<>>), Body("null", <<>>), Body("string", <<>>), Body("array", <<>>),
   Body("object", <<>>), Body("object", <<NullV>>), Body("object", <<StrV(SecretA)>>),
   Body("object", <<StrV(SecretB)>>), Body("object", <<StrV(<<>>)>>)}

\* request: the environment of the server, the paths revalidated so far and
\* the number of requests served, with the body of the last one
InitRevalidate ==
  /\ dirStatus = "ok"
  /\ entries = Dir({})
  /\ results = NoCalls
  /\ calls = 0
  /\ reads = 0
  /\ writes = 0
  /\ vInput = ValidMetadata
  /\ vResult = <<>>
  /\ request \in {[env |-> env, body |-> <<>>, revalidated |-> <<>>, served |-> 0] :
                    env \in {<<>>, <<SecretA>>}}
  /\ response = <<>>
  /\ newComic = <<>>
  /\ supabase = <<>>
  /\ dashboard = <<>>
  /\ upload = <<>>

\* a POST request with the body is served
ServePost(body) ==
  /\ request.served < MaxRequests
  /\ response' = <<POST(body, request.env)>>
  /\ request' = [request EXCEPT !.body = <<body>>,
                                !.revalidated = @ \o POST(body, request.env).revalidated,
                                !.served = @ + 1]
  /\ UNCHANGED <<dirStatus, entries, results, calls, reads, writes, vInput, vResult,
                 newComic, supabase, dashboard, upload>>

NextRevalidate == \E body \in Bodies : ServePost(body)

SpecRevalidate == InitRevalidate /\ [][NextRevalidate]_vars

\* the request body carries the configured secret
Authorized(body, env) ==
  /\ env # <<>>
  /\ body.kind = "object"
  /\ body.secret = <<StrV(env[1])>>

\* C26 as stated: POST /api/revalidate never performs an unauthorized
\* revalidation. The paths / and /archive are revalidated only by a request
\* whose body carries the configured REVALIDATION_SECRET; every other
\* request is answered 401, or 500 when the body cannot be parsed, and
\* revalidates nothing.
C26_Original ==
  [][\A body \in Bodies :
       (ServePost(body) /\ ~Authorized(body, request.env)) =>
          /\ request'.revalidated = request.revalidated
          /\ response'[1].status \in {401, 500}]_vars

\* REVALIDATION_SECRET is not set and the body {} was posted: both paths were
\* revalidated and the answer is 200
C26_Witness ==
  /\ request.served = 1
  /\ request.env = <<>>
  /\ request.body = <<Body("object", <<>>)>>
  /\ request.revalidated = <<RootPath, ArchivePath>>
  /\ response = <<[status |-> 200, error |-> "", revalidated |-> <<RootPath, ArchivePath>>]>>

====
